---- MODULE Spec2Model ----
(***************************************************************************)
(* A model of lf-gfx's game scaffolding:                                   *)
(*   - ResizableSurface (src/src/game/surface.rs), the lock-free surface   *)
(*     resize protocol, checked under SurfaceSpec;                         *)
(*   - GameState::run and the event handler (src/src/game.rs), checked     *)
(*     under GameSpec.                                                     *)
(* The two components share no state in the source; each specification     *)
(* moves one of them and leaves the other's variables parked.             *)
(***************************************************************************)
EXTENDS Naturals, Integers, Sequences, FiniteSets, TLC

(***************************************************************************)
(* Bounds of the model.                                                    *)
(***************************************************************************)
\* largest width / height of a surface size
MaxDim == 1
\* number of ResizableSurface::resize calls in a run
MaxResizes == 3
\* number of frames submitted to the GPU queue in a run
MaxSubmits == 2
\* largest number of commands waiting in the command channel
MaxQueue == 2
\* largest width of the game window
MaxWidth == 2
\* largest coordinate of a cursor position
MaxPos == 3
\* largest coordinate of a cursor position where only the pointer is followed
MaxPointer == 5
\* largest number of adapters an instance enumerates
MaxAdapters == 2
\* largest value of a field of the limits given to limits_intersection and limits_union
MaxLimit == 1

Dims == 0 .. MaxDim
\* winit::dpi::PhysicalSize<u32>, as <<width, height>>
Sizes == Dims \X Dims
NonZeroSizes == {s \in Sizes : s[1] > 0 /\ s[2] > 0}
\* the sizes the game window takes: (0, 0), and the widths up to MaxWidth at height 1
WindowSizes == {<<0, 0>>} \cup ((0 .. MaxWidth) \X {1})

VARIABLES
    \* ---- ResizableSurface (surface.rs) ----
    rs_state,        \* state: Arc<AtomicU32>, the encoded ResizableSurfaceState
    rs_new_size,     \* new_size
    rs_config,       \* config.width, config.height
    rs_surface,      \* the size the wgpu::Surface was last configured with
    rs_pc,           \* position of the event-loop thread inside get
    rs_ret,          \* what the last get returned: "Some", "None" ("pending" while running)
    rs_held,         \* the caller holds the &Surface the last get returned
    callbacks,       \* on_submitted_work_done closures registered and not yet run
    submitted,       \* GPU submissions made so far (numbered 1..submitted)
    completed,       \* submissions 1..completed have finished executing
    \* ---- history of the surface protocol ----
    resizes,         \* number of resize calls so far
    requested,       \* size of the most recent resize (the initial configuration before any)
    resizeMark,      \* value of submitted at the most recent resize
    cfgSinceResize,  \* surface.configure calls since the most recent resize
    observed,        \* the state the running / last get decoded from its load
    getSteps,        \* steps the running / last get has taken
    getConfigs,      \* surface.configure calls made by the running / last get
    \* ---- GameState::run (game.rs): the closure's captured state ----
    build,           \* cfg(target_arch): "native" or "wasm"
    init_some,       \* init: Option<(InitData, Sender)> is Some
    task,            \* the bring-up future: "none", "adapter", "device", "done"
    state_channel,   \* the bounded(1) channel carrying the built state: "empty", "full"
    state_some,      \* state: Option<GameState> is Some
    panicked,        \* "none", or the panic that ended the process
    loop_destroyed,  \* LoopDestroyed has been delivered
    resumed,         \* number of Resumed events delivered before the state was there (up to 2)
    \* ---- GameState fields ----
    control_flow,    \* *control_flow: "Poll" or "Exit"
    exit_flag,       \* data.exit_flag
    cmdq,            \* the command channel's contents, oldest first
    input_mode,      \* input_mode
    mouse_sensitivity, \* mouse_sensitivity, in hundredths
    cursor_visible,  \* what window.set_cursor_visible was last given
    data_size,       \* data.size
    data_config,     \* data.config.width, data.config.height
    g_surface,       \* the size the surface was last configured with
    g_pc,            \* position of the event-loop thread inside the handler
    work_done,       \* the work-done signal of resize: "none", "registered", "sent"
    current_modifiers,    \* current_modifiers
    last_cursor_position, \* last_cursor_position, as <<x, y>>
    input_map,       \* input_map: its linear_map and its vector_map
    \* ---- history of the run ----
    bringups,        \* number of bring-ups (GameState::new) started
    finishedCount,   \* number of Game::finished calls
    calls,           \* what the latest step of the handler called, in order
    exitDrained,     \* an Exit command has been taken out of the channel
    exitAtTickStart, \* an Exit command was in the channel when the tick in progress began
    expMode,         \* argument of the last SetInputMode sent (the initial mode before any)
    expSens,         \* argument of the last SetMouseSensitivity sent (the initial one before any)
    toDrain,         \* commands the drain in progress has yet to take of those sent before it began
    last_event,      \* the event the state was last given, where a specification records it
    render_result,   \* what the latest render came to, where a specification records it
    dispatched,      \* the linear_input and vector_input calls of the latest event, in order
    handled,         \* the handle_linear_input and handle_vector_input calls they made
    \* ---- request_powerful_adapter (adapter_query.rs) ----
    instance_adapters, \* what instance.enumerate_adapters(backends) yields, in order
    query,           \* query: AdapterQuery
    returned,        \* "pending", or the Option returned: <<>> or <<adapter>>
    \* ---- limits_intersection, limits_union (limits.rs) ----
    limits_lhs,      \* lhs: &wgpu::Limits
    limits_rhs,      \* rhs: &wgpu::Limits
    limits_out,      \* the function called ("none" before the call) and the wgpu::Limits it returned
    \* ---- local_storage.rs ----
    local_storage    \* what load gives for the key the bindings are kept under: <<>> or <<string>>

rsVars == <<rs_state, rs_new_size, rs_config, rs_surface, rs_pc, rs_ret, rs_held,
            callbacks, submitted, completed>>
rsHist == <<resizes, requested, resizeMark, cfgSinceResize,
            observed, getSteps, getConfigs>>

rsAll == <<rsVars, rsHist>>

gLife == <<build, init_some, task, state_channel, state_some, panicked, loop_destroyed,
           resumed>>
gFields == <<control_flow, exit_flag, cmdq, input_mode, mouse_sensitivity, cursor_visible,
             data_size, data_config, g_surface, g_pc, work_done>>
qHist == <<expMode, expSens, toDrain>>
recorded == <<last_event, render_result>>
gHist == <<bringups, finishedCount, calls, exitDrained, exitAtTickStart, qHist, recorded>>
gInput == <<current_modifiers, last_cursor_position, input_map>>
iHist == <<dispatched, handled>>
inVars == <<gInput, iHist>>
gAll == <<gLife, gFields, gHist, inVars>>

aqAll == <<instance_adapters, query, returned>>

lmAll == <<limits_lhs, limits_rhs, limits_out>>

lsAll == <<local_storage>>

vars == <<rsAll, gAll, aqAll, lmAll, lsAll>>

(***************************************************************************)
(* ResizableSurfaceState and its u32 encoding.                             *)
(***************************************************************************)
ResizableSurfaceState == {"Active", "ResizingQueued", "Inactive"}

encode(s) ==
    CASE s = "Active" -> 0
      [] s = "ResizingQueued" -> 1
      [] s = "Inactive" -> 2

decode(value) ==
    CASE value = 0 -> "Active"
      [] value = 1 -> "ResizingQueued"
      [] value = 2 -> "Inactive"
      [] OTHER -> "unreachable"

\* AtomicU32::compare_exchange: the new value of the cell
compare_exchange(cell, current, new) == IF cell = current THEN new ELSE cell

(***************************************************************************)
(* ResizableSurface::new: the surface is configured with the given         *)
(* configuration, the state is Active and new_size is (0, 0).              *)
(***************************************************************************)
RSNew ==
    /\ rs_config \in NonZeroSizes
    /\ rs_surface = rs_config
    /\ rs_state = encode("Active")
    /\ rs_new_size = <<0, 0>>
    /\ rs_pc = "idle"
    /\ rs_ret = "none"
    /\ rs_held = FALSE
    /\ callbacks = {}
    /\ submitted = 0
    /\ completed = 0
    /\ resizes = 0
    /\ requested = rs_config
    /\ resizeMark = 0
    /\ cfgSinceResize = 0
    /\ observed = "none"
    /\ getSteps = 0
    /\ getConfigs = 0

(***************************************************************************)
(* ResizableSurface::resize, called by the event-loop thread (never while  *)
(* it is inside get, and ending the borrow of a surface get returned).     *)
(* It stores ResizingQueued, records the size, and registers one           *)
(* completion closure with the queue, unconditionally.                     *)
(***************************************************************************)
\* variant: resize is called from another thread while get runs
resizeDuringGet(new_size) ==
    /\ resizes < MaxResizes
    /\ rs_state' = encode("ResizingQueued")
    /\ rs_new_size' = new_size
    /\ callbacks' = callbacks \cup {[id |-> resizes + 1, upto |-> submitted]}
    /\ rs_held' = FALSE
    /\ resizes' = resizes + 1
    /\ requested' = new_size
    /\ resizeMark' = submitted
    /\ cfgSinceResize' = 0
    /\ UNCHANGED <<rs_config, rs_surface, rs_pc, rs_ret, submitted, completed,
                   observed, getSteps, getConfigs>>
    /\ UNCHANGED <<gAll, aqAll, lmAll, lsAll>>

resize(new_size) ==
    /\ rs_pc = "idle"
    /\ resizes < MaxResizes
    /\ rs_state' = encode("ResizingQueued")
    /\ rs_new_size' = new_size
    /\ callbacks' = callbacks \cup {[id |-> resizes + 1, upto |-> submitted]}
    /\ rs_held' = FALSE
    /\ resizes' = resizes + 1
    /\ requested' = new_size
    /\ resizeMark' = submitted
    /\ cfgSinceResize' = 0
    /\ UNCHANGED <<rs_config, rs_surface, rs_pc, rs_ret, submitted, completed,
                   observed, getSteps, getConfigs>>
    /\ UNCHANGED <<gAll, aqAll, lmAll, lsAll>>

Resize == \E new_size \in Sizes : resize(new_size)

(***************************************************************************)
(* The closure given to on_submitted_work_done: it runs on the GPU         *)
(* executor once all work submitted before its registration has finished,  *)
(* and tries ResizingQueued -> Inactive.                                   *)
(***************************************************************************)
\* variant: the closure stores Inactive whatever the state is
WorkDoneCallbackStore(cb) ==
    /\ cb \in callbacks
    /\ cb.upto <= completed
    /\ callbacks' = callbacks \ {cb}
    /\ rs_state' = encode("Inactive")
    /\ UNCHANGED <<rs_new_size, rs_config, rs_surface, rs_pc, rs_ret, rs_held,
                   submitted, completed>>
    /\ UNCHANGED rsHist
    /\ UNCHANGED <<gAll, aqAll, lmAll, lsAll>>

\* variant: the closure swaps ResizingQueued for Active
WorkDoneCallbackToActive(cb) ==
    /\ cb \in callbacks
    /\ cb.upto <= completed
    /\ callbacks' = callbacks \ {cb}
    /\ rs_state' = compare_exchange(rs_state, encode("ResizingQueued"), encode("Active"))
    /\ UNCHANGED <<rs_new_size, rs_config, rs_surface, rs_pc, rs_ret, rs_held,
                   submitted, completed>>
    /\ UNCHANGED rsHist
    /\ UNCHANGED <<gAll, aqAll, lmAll, lsAll>>

WorkDoneCallback(cb) ==
    /\ cb \in callbacks
    /\ cb.upto <= completed
    /\ callbacks' = callbacks \ {cb}
    /\ rs_state' = compare_exchange(rs_state, encode("ResizingQueued"), encode("Inactive"))
    /\ UNCHANGED <<rs_new_size, rs_config, rs_surface, rs_pc, rs_ret, rs_held,
                   submitted, completed>>
    /\ UNCHANGED rsHist
    /\ UNCHANGED <<gAll, aqAll, lmAll, lsAll>>

CallbackFires == \E cb \in callbacks : WorkDoneCallback(cb)

(***************************************************************************)
(* ResizableSurface::get, step by step: the call, the atomic load and the  *)
(* match on it, the reconfiguration, the compare-and-swap.                 *)
(***************************************************************************)
GetCall ==
    /\ rs_pc = "idle"
    /\ rs_pc' = "load"
    /\ rs_ret' = "pending"
    /\ rs_held' = FALSE
    /\ getSteps' = 0
    /\ getConfigs' = 0
    /\ observed' = "none"
    /\ UNCHANGED <<rs_state, rs_new_size, rs_config, rs_surface, callbacks, submitted,
                   completed, resizes, requested, resizeMark, cfgSinceResize>>
    /\ UNCHANGED <<gAll, aqAll, lmAll, lsAll>>

\* get variant: a ResizingQueued state is treated like Inactive
GetLoadEager ==
    /\ rs_pc = "load"
    /\ observed' = decode(rs_state)
    /\ getSteps' = getSteps + 1
    /\ CASE decode(rs_state) \in {"ResizingQueued", "Inactive"} ->
              /\ rs_pc' = "configure"
              /\ UNCHANGED <<rs_ret, rs_held>>
         [] decode(rs_state) = "Active" ->
              /\ rs_pc' = "idle"
              /\ rs_ret' = "Some"
              /\ rs_held' = TRUE
    /\ UNCHANGED <<rs_state, rs_new_size, rs_config, rs_surface, callbacks, submitted,
                   completed, resizes, requested, resizeMark, cfgSinceResize,
                   getConfigs>>
    /\ UNCHANGED <<gAll, aqAll, lmAll, lsAll>>

\* get variant: the load waits until the state is no longer ResizingQueued
GetLoadBlocking ==
    /\ rs_pc = "load"
    /\ decode(rs_state) # "ResizingQueued"
    /\ observed' = decode(rs_state)
    /\ getSteps' = getSteps + 1
    /\ CASE decode(rs_state) = "Inactive" ->
              /\ rs_pc' = "configure"
              /\ UNCHANGED <<rs_ret, rs_held>>
         [] decode(rs_state) = "Active" ->
              /\ rs_pc' = "idle"
              /\ rs_ret' = "Some"
              /\ rs_held' = TRUE
    /\ UNCHANGED <<rs_state, rs_new_size, rs_config, rs_surface, callbacks, submitted,
                   completed, resizes, requested, resizeMark, cfgSinceResize,
                   getConfigs>>
    /\ UNCHANGED <<gAll, aqAll, lmAll, lsAll>>

\* get variant: an Inactive state is treated like ResizingQueued
GetLoadNotReady ==
    /\ rs_pc = "load"
    /\ observed' = decode(rs_state)
    /\ getSteps' = getSteps + 1
    /\ CASE decode(rs_state) \in {"ResizingQueued", "Inactive"} ->
              /\ rs_pc' = "idle"
              /\ rs_ret' = "None"
              /\ rs_held' = FALSE
         [] decode(rs_state) = "Active" ->
              /\ rs_pc' = "idle"
              /\ rs_ret' = "Some"
              /\ rs_held' = TRUE
    /\ UNCHANGED <<rs_state, rs_new_size, rs_config, rs_surface, callbacks, submitted,
                   completed, resizes, requested, resizeMark, cfgSinceResize,
                   getConfigs>>
    /\ UNCHANGED <<gAll, aqAll, lmAll, lsAll>>

GetLoad ==
    /\ rs_pc = "load"
    /\ observed' = decode(rs_state)
    /\ getSteps' = getSteps + 1
    /\ CASE decode(rs_state) = "ResizingQueued" ->
              /\ rs_pc' = "idle"
              /\ rs_ret' = "None"
              /\ rs_held' = FALSE
         [] decode(rs_state) = "Inactive" ->
              /\ rs_pc' = "configure"
              /\ UNCHANGED <<rs_ret, rs_held>>
         [] decode(rs_state) = "Active" ->
              /\ rs_pc' = "idle"
              /\ rs_ret' = "Some"
              /\ rs_held' = TRUE
    /\ UNCHANGED <<rs_state, rs_new_size, rs_config, rs_surface, callbacks, submitted,
                   completed, resizes, requested, resizeMark, cfgSinceResize,
                   getConfigs>>
    /\ UNCHANGED <<gAll, aqAll, lmAll, lsAll>>

\* get variant: the surface is configured without copying new_size into config
GetConfigureStale ==
    /\ rs_pc = "configure"
    /\ rs_surface' = rs_config
    /\ rs_pc' = "cas"
    /\ getSteps' = getSteps + 1
    /\ getConfigs' = getConfigs + 1
    /\ cfgSinceResize' = cfgSinceResize + 1
    /\ UNCHANGED <<rs_state, rs_new_size, rs_config, rs_ret, rs_held, callbacks, submitted,
                   completed, resizes, requested, resizeMark, observed>>
    /\ UNCHANGED <<gAll, aqAll, lmAll, lsAll>>

GetConfigure ==
    /\ rs_pc = "configure"
    /\ rs_config' = rs_new_size
    /\ rs_surface' = rs_new_size
    /\ rs_pc' = "cas"
    /\ getSteps' = getSteps + 1
    /\ getConfigs' = getConfigs + 1
    /\ cfgSinceResize' = cfgSinceResize + 1
    /\ UNCHANGED <<rs_state, rs_new_size, rs_ret, rs_held, callbacks, submitted,
                   completed, resizes, requested, resizeMark, observed>>
    /\ UNCHANGED <<gAll, aqAll, lmAll, lsAll>>

\* get variant: the surface is returned without the state being swapped to Active
GetCASNoSwap ==
    /\ rs_pc = "cas"
    /\ rs_ret' = "Some"
    /\ rs_held' = TRUE
    /\ rs_pc' = "idle"
    /\ getSteps' = getSteps + 1
    /\ UNCHANGED <<rs_state, rs_new_size, rs_config, rs_surface, callbacks, submitted,
                   completed, resizes, requested, resizeMark, cfgSinceResize,
                   observed, getConfigs>>
    /\ UNCHANGED <<gAll, aqAll, lmAll, lsAll>>

GetCAS ==
    /\ rs_pc = "cas"
    /\ rs_state' = compare_exchange(rs_state, encode("Inactive"), encode("Active"))
    /\ rs_ret' = IF rs_state = encode("Inactive") THEN "Some" ELSE "None"
    /\ rs_held' = (rs_state = encode("Inactive"))
    /\ rs_pc' = "idle"
    /\ getSteps' = getSteps + 1
    /\ UNCHANGED <<rs_new_size, rs_config, rs_surface, callbacks, submitted, completed,
                   resizes, requested, resizeMark, cfgSinceResize,
                   observed, getConfigs>>
    /\ UNCHANGED <<gAll, aqAll, lmAll, lsAll>>

\* the next step of a get in progress
GetStep == GetLoad \/ GetConfigure \/ GetCAS

(***************************************************************************)
(* The GPU queue: a frame is submitted through the surface a get returned; *)
(* submissions finish in order.                                            *)
(***************************************************************************)
SubmitFrame ==
    /\ rs_pc = "idle"
    /\ rs_held
    /\ submitted < MaxSubmits
    /\ submitted' = submitted + 1
    /\ UNCHANGED <<rs_state, rs_new_size, rs_config, rs_surface, rs_pc, rs_ret, rs_held,
                   callbacks, completed>>
    /\ UNCHANGED rsHist
    /\ UNCHANGED <<gAll, aqAll, lmAll, lsAll>>

WorkFinishes ==
    /\ completed < submitted
    /\ completed' = completed + 1
    /\ UNCHANGED <<rs_state, rs_new_size, rs_config, rs_surface, rs_pc, rs_ret, rs_held,
                   callbacks, submitted>>
    /\ UNCHANGED rsHist
    /\ UNCHANGED <<gAll, aqAll, lmAll, lsAll>>

SurfaceNext ==
    \/ Resize
    \/ CallbackFires
    \/ GetCall
    \/ GetLoad
    \/ GetConfigure
    \/ GetCAS
    \/ SubmitFrame
    \/ WorkFinishes

(***************************************************************************)
(* InputMode and its four policies.                                        *)
(***************************************************************************)
InputMode == {"Exclusive", "UI", "Unified"}

should_hide_cursor(mode) == mode = "Exclusive"
\* variant: UI handles mapped input too
should_handle_inputAlways(mode) == mode \in {"Exclusive", "UI", "Unified"}
should_handle_input(mode) == mode \in {"Exclusive", "Unified"}
should_propogate_raw_input(mode) == mode \in {"UI", "Unified"}
should_lock_cursor(mode) == mode = "Exclusive"

(***************************************************************************)
(* GameCommand.  Sensitivities are in hundredths: 1 is 0.01.               *)
(***************************************************************************)
DefaultSensitivity == 1
Sensitivities == {DefaultSensitivity, 5 * DefaultSensitivity}

Exit == [cmd |-> "Exit"]
SetInputMode(mode) == [cmd |-> "SetInputMode", mode |-> mode]
SetMouseSensitivity(value) == [cmd |-> "SetMouseSensitivity", value |-> value]

GameCommand ==
    {Exit} \cup {SetInputMode(m) : m \in InputMode}
           \cup {SetMouseSensitivity(v) : v \in Sensitivities}

(***************************************************************************)
(* The platform events the handler distinguishes.  own tells whether the   *)
(* event carries the id of the window the state owns.                      *)
(***************************************************************************)
WindowEvents ==
    [kind : {"CloseRequested", "Destroyed"}, window : {TRUE}, own : BOOLEAN]
      \cup [kind : {"Resized", "ScaleFactorChanged"}, window : {TRUE}, own : BOOLEAN,
            size : WindowSizes]

\* of the events for another window, which are all treated alike, one size is kept
Events ==
    [kind : {"Resumed", "MainEventsCleared"}, window : {FALSE}]
      \cup [kind : {"RedrawRequested"}, window : {FALSE}, own : BOOLEAN]
      \cup {e \in WindowEvents : e.own \/ e.kind = "CloseRequested"
                                       \/ (e.kind = "Resized" /\ e.size = <<1, 1>>)}

\* before the first event
NoEvent == [kind |-> "none", window |-> FALSE]

\* the event kinds is_input_event answers true for
InputEventKinds ==
    {"CursorMoved", "CursorEntered", "CursorLeft", "MouseWheel", "MouseInput",
     "TouchpadRotate", "TouchpadPressure", "AxisMotion", "Touch", "ReceivedCharacter",
     "KeyboardInput", "ModifiersChanged", "Ime", "TouchpadMagnify", "SmartMagnify",
     "MouseMotion", "Motion", "Button", "Key", "Text"}

is_input_event(event) == event.kind \in InputEventKinds

\* SurfaceError, and the two ways get_current_texture succeeds
RenderOutcomes == {"Ok", "Suboptimal", "Lost", "OutOfMemory", "Outdated", "Timeout"}

(***************************************************************************)
(* Physical inputs, activations and the input map (input.rs).  Activations *)
(* are in hundredths, like sensitivities: a pixel delta times a            *)
(* sensitivity is an activation.                                           *)
(***************************************************************************)
\* input::KeyCode: the four modifier keys and two others
KeyCode == {"Shift", "Ctrl", "Alt", "Logo", "W", "Q"}
MouseInputType == {"MoveLeft", "MoveRight", "MoveUp", "MoveDown", "ScrollUp", "ScrollDown"}

KnownKeyboard(key) == <<"KnownKeyboard", key>>
Mouse(m) == <<"Mouse", m>>
LinearInputType == {KnownKeyboard(k) : k \in KeyCode} \cup {Mouse(m) : m \in MouseInputType}
VectorInputType == {"MouseMove"}

\* the activation 1.0
Full == 100

\* f32::NAN, a value outside every range that occurs
NaN == 0 - 1000000

\* the f32 product: NaN when a factor is
f32_mul(a, b) == IF a = NaN \/ b = NaN THEN NaN ELSE a * b

\* f32::clamp: NaN stays NaN
f32_clamp(val, min, max) ==
    IF val = NaN THEN NaN ELSE IF val < min THEN min ELSE IF val > max THEN max ELSE val

LinearInputActivation_clamp(val) == f32_clamp(val, 0, Full)

VectorInputActivation_clamp(x, y) ==
    <<f32_clamp(x, 0 - Full, Full), f32_clamp(y, 0 - Full, Full)>>

\* InputMap::empty
empty == [linear_map |-> [i \in {} |-> i], vector_map |-> [i \in {} |-> i]]

assign_linear(map, input, value) ==
    [linear_map |-> [i \in DOMAIN map.linear_map \cup {input} |->
                       IF i = input THEN value ELSE map.linear_map[i]],
     vector_map |-> map.vector_map]

assign_vector(map, input, value) ==
    [linear_map |-> map.linear_map,
     vector_map |-> [i \in DOMAIN map.vector_map \cup {input} |->
                       IF i = input THEN value ELSE map.vector_map[i]]]

\* Option<&TLinear>, as a sequence of at most one action
get_linear(map, input) ==
    IF input \in DOMAIN map.linear_map THEN <<map.linear_map[input]>> ELSE <<>>

get_vector(map, input) ==
    IF input \in DOMAIN map.vector_map THEN <<map.vector_map[input]>> ELSE <<>>

\* linear bindings of a game: a key, a modifier and two of the four pointer
\* directions are bound, the others are not
LinearBindings ==
    assign_linear(assign_linear(assign_linear(assign_linear(empty,
        KnownKeyboard("W"), "Forward"),
        KnownKeyboard("Shift"), "Sprint"),
        Mouse("MoveRight"), "TurnRight"),
        Mouse("MoveUp"), "LookUp")

\* what Game::default_inputs may return
InputMaps == {LinearBindings, assign_vector(LinearBindings, "MouseMove", "Look")}

\* InputMap::to_str: the serde_json text of the map
to_str(map) == [json |-> TRUE, inner |-> map]

\* a string serde_json cannot read as an input map
Malformed == [json |-> FALSE, inner |-> empty]

\* InputMap::from_str: Ok with the map read, or Err
from_str(s) == IF s.json THEN <<"Ok", s.inner>> ELSE <<"Err", "serde_json::Error">>

\* bindings a user may have stored: a bound key moved to another action, a
\* key bound that the defaults leave unbound, and the pointer's motion bound
StoredMaps ==
    {assign_linear(empty, KnownKeyboard("W"), "Backward"),
     assign_linear(empty, KnownKeyboard("Q"), "Lean"),
     assign_vector(empty, "MouseMove", "Aim")}

\* local_storage::load: None, or Some of the string kept under the key
Loads == {<<>>, <<Malformed>>} \cup {<<to_str(m)>> : m \in StoredMaps}

\* local_storage.rs in a specification that keeps nothing under the key
StorageParked == local_storage = <<>>

\* input::ModifiersState
ModifiersStates == [shift : BOOLEAN, ctrl : BOOLEAN, alt : BOOLEAN, logo : BOOLEAN]
ModifiersDefault == [shift |-> FALSE, ctrl |-> FALSE, alt |-> FALSE, logo |-> FALSE]

\* PhysicalPosition, as <<x, y>>
Positions == (0 .. MaxPos) \X (0 .. MaxPos)

Abs(x) == IF x < 0 THEN 0 - x ELSE x

\* f64 as u32
cast_u32(v) == IF v < 0 THEN 0 ELSE v

(***************************************************************************)
(* The input events, and two events that are not input-shaped.  A          *)
(* KeyboardInput with key "unknown" has no virtual_keycode; MouseMotion is *)
(* a DeviceEvent.  The modifier events are given by a specification of     *)
(* their own.                                                              *)
(***************************************************************************)
InputEvents ==
    [kind : {"KeyboardInput"}, window : {TRUE}, own : {TRUE},
     key : {"W", "Q", "unknown"}, pressed : BOOLEAN, is_synthetic : BOOLEAN]
      \cup [kind : {"CursorMoved"}, window : {TRUE}, own : {TRUE}, position : Positions]
      \cup [kind : {"MouseMotion"}, window : {FALSE}]

ModifierEvents ==
    [kind : {"ModifiersChanged"}, window : {TRUE}, own : {TRUE}, modifiers : ModifiersStates]

\* the pointer's positions and the CursorMoved events that report them
PointerPositions == (0 .. MaxPointer) \X (0 .. MaxPointer)

PointerEvents ==
    [kind : {"CursorMoved"}, window : {TRUE}, own : {TRUE}, position : PointerPositions]

\* values SetMouseSensitivity may carry: 0.1, 0.5 and NaN
PointerSensitivities == {10, 50, NaN}

OtherEvents ==
    {[kind |-> "Focused", window |-> TRUE, own |-> TRUE],
     [kind |-> "MainEventsCleared", window |-> FALSE]}

modeVars == <<input_mode, mouse_sensitivity, cursor_visible>>
sizeVars == <<data_size, data_config, g_surface, work_done>>

Alive == panicked = "none" /\ ~loop_destroyed

(***************************************************************************)
(* The fields GameState::new gives the state; the variables hold them from *)
(* the start, the command channel is created and seeded by bring-up.       *)
(***************************************************************************)
GameStateNew ==
    /\ data_size \in {s \in WindowSizes : s[1] > 0 /\ s[2] > 0}
    /\ data_config = data_size
    /\ g_surface = data_size
    /\ input_mode = "Unified"
    /\ mouse_sensitivity = DefaultSensitivity
    /\ cursor_visible = TRUE
    /\ exit_flag = FALSE
    /\ cmdq = <<>>
    /\ current_modifiers = ModifiersDefault
    /\ last_cursor_position = <<0, 0>>
    /\ input_map \in InputMaps
    /\ dispatched = <<>>
    /\ handled = <<>>

\* GameState::run before the first event
RunInit ==
    /\ build \in {"native", "wasm"}
    /\ init_some = TRUE
    /\ task = "none"
    /\ state_channel = "empty"
    /\ state_some = FALSE
    /\ panicked = "none"
    /\ loop_destroyed = FALSE
    /\ resumed = 0
    /\ control_flow = "Poll"
    /\ g_pc = "idle"
    /\ work_done = "none"
    /\ bringups = 0
    /\ finishedCount = 0
    /\ calls = <<>>
    /\ exitDrained = FALSE
    /\ exitAtTickStart = FALSE
    /\ expMode = "Unified"
    /\ expSens = DefaultSensitivity
    /\ toDrain = 0
    /\ last_event = NoEvent
    /\ render_result = "none"

(***************************************************************************)
(* GameState::resize: for a nonzero size, the cached size and the          *)
(* configuration are set, the work-done closure is registered and the      *)
(* thread waits for its signal; the rest is ResizeFinish.                  *)
(***************************************************************************)
\* The signal when r.recv() is entered.  On a native build the closure runs
\* on its own step (WorkDoneSend).  On wasm32 the queue runs the closure
\* inside on_submitted_work_done or device.poll when no work is outstanding,
\* and otherwise leaves it to the browser's event loop.
signal_at_recv ==
    IF build = "wasm" THEN {"registered", "sent"} ELSE {"registered"}

\* variant: the surface is configured before the wait
gs_resizeEager(new_size, pre) ==
    /\ calls' = pre
    /\ IF new_size[1] > 0 /\ new_size[2] > 0
       THEN /\ data_size' = new_size
            /\ data_config' = new_size
            /\ g_surface' = new_size
            /\ work_done' \in signal_at_recv
            /\ g_pc' = "resize_wait"
       ELSE UNCHANGED <<sizeVars, g_pc>>

gs_resize(new_size, pre) ==
    /\ calls' = pre
    /\ IF new_size[1] > 0 /\ new_size[2] > 0
       THEN /\ data_size' = new_size
            /\ data_config' = new_size
            /\ work_done' \in signal_at_recv
            /\ g_pc' = "resize_wait"
            /\ UNCHANGED g_surface
       ELSE UNCHANGED <<sizeVars, g_pc>>

\* the closure given to on_submitted_work_done sends the signal; it runs when
\* the queue's submitted work is done (device.poll(Maintain::Wait) drives it).
\* On wasm32 the only thread is the one inside r.recv(): the browser cannot
\* run the closure until the handler has returned.
WorkDoneSend ==
    /\ Alive
    /\ work_done = "registered"
    /\ build = "wasm" => g_pc # "resize_wait"
    /\ work_done' = "sent"
    /\ UNCHANGED <<gLife, gHist, control_flow, exit_flag, cmdq, modeVars, data_size,
                   data_config, g_surface, g_pc>>
    /\ UNCHANGED inVars
    /\ UNCHANGED <<rsAll, aqAll, lmAll, lsAll>>

\* r.recv() returns; the surface is configured; window_resize is called with
\* new_size, which is data.size
ResizeFinish ==
    /\ Alive
    /\ g_pc = "resize_wait"
    /\ work_done = "sent"
    /\ work_done' = "none"
    /\ g_surface' = data_config
    /\ calls' = <<"window_resize">>
    /\ g_pc' = "idle"
    /\ UNCHANGED <<gLife, control_flow, exit_flag, cmdq, modeVars, data_size, data_config>>
    /\ UNCHANGED <<bringups, finishedCount, exitDrained, exitAtTickStart, qHist, recorded>>
    /\ UNCHANGED inVars
    /\ UNCHANGED <<rsAll, aqAll, lmAll, lsAll>>

\* an event that makes no call of linear_input or vector_input
NoInput ==
    /\ dispatched' = <<>>
    /\ handled' = <<>>
    /\ UNCHANGED gInput

(***************************************************************************)
(* GameState::request_exit: the flag is set, then user_exit_requested runs *)
(* (the default enqueues Exit; an override may enqueue nothing).           *)
(***************************************************************************)
request_exit(pre) ==
    /\ exit_flag' = TRUE
    /\ calls' = pre \o <<"user_exit_requested">>
    /\ \E enqueue \in (IF Len(cmdq) < MaxQueue THEN BOOLEAN ELSE {FALSE}) :
          cmdq' = IF enqueue THEN Append(cmdq, Exit) ELSE cmdq
    /\ UNCHANGED <<control_flow, modeVars, sizeVars, g_pc, exitAtTickStart, toDrain>>
    /\ NoInput

\* an arm of process_event that does nothing
Ignored(pre) ==
    /\ calls' = pre
    /\ UNCHANGED <<gFields, exitAtTickStart, toDrain>>
    /\ NoInput

\* variant: the size of a Resized event is taken as it comes
ResizedUnfiltered(physical_size, pre) ==
    /\ calls' = pre
    /\ data_size' = physical_size
    /\ data_config' = physical_size
    /\ work_done' = "registered"
    /\ g_pc' = "resize_wait"
    /\ NoInput
    /\ UNCHANGED <<g_surface, control_flow, exit_flag, cmdq, modeVars, exitAtTickStart,
                   toDrain>>

\* the two WindowEvent::Resized arms of process_event
Resized(physical_size, pre) ==
    IF physical_size = <<0, 0>>
    THEN Ignored(pre)
    ELSE /\ gs_resize(physical_size, pre)
         /\ NoInput
         /\ UNCHANGED <<control_flow, exit_flag, cmdq, modeVars, exitAtTickStart, toDrain>>

(***************************************************************************)
(* The input path of process_event.  A call of linear_input or             *)
(* vector_input is a record; linear_input and vector_input give the game   *)
(* callback they make, as a sequence of at most one.                       *)
(***************************************************************************)
LinearCall(input, activation) ==
    [fn |-> "linear_input", input |-> input, activation |-> activation]

VectorCall(input, activation) ==
    [fn |-> "vector_input", input |-> input, activation |-> activation]

\* variant: linear_input does not ask the mode
linear_inputAnyMode(input, activation) ==
    IF get_linear(input_map, input) # <<>>
    THEN <<[callback |-> "handle_linear_input", physical |-> input,
            input |-> get_linear(input_map, input)[1], activation |-> activation]>>
    ELSE <<>>

linear_input(input, activation) ==
    IF ~should_handle_input(input_mode)
    THEN <<>>
    ELSE IF get_linear(input_map, input) # <<>>
         THEN <<[callback |-> "handle_linear_input", physical |-> input,
                 input |-> get_linear(input_map, input)[1], activation |-> activation]>>
         ELSE <<>>

vector_input(input, activation) ==
    IF ~should_handle_input(input_mode)
    THEN <<>>
    ELSE IF get_vector(input_map, input) # <<>>
         THEN <<[callback |-> "handle_vector_input", physical |-> input,
                 input |-> get_vector(input_map, input)[1], activation |-> activation]>>
         ELSE <<>>

\* the game callbacks a sequence of linear_input and vector_input calls makes
RECURSIVE Dispatch(_)
Dispatch(cs) ==
    IF cs = <<>>
    THEN <<>>
    ELSE (IF Head(cs).fn = "linear_input"
          THEN linear_input(Head(cs).input, Head(cs).activation)
          ELSE vector_input(Head(cs).input, Head(cs).activation))
           \o Dispatch(Tail(cs))

\* the keys whose modifier changed, with their activations, in the order
\* shift, ctrl, alt, logo
\* variant: the activation tells what the modifier was
checkByOld(old, new, key) ==
    IF old # new
    THEN <<[key |-> key, activation |-> IF old THEN Full ELSE 0]>>
    ELSE <<>>

check(old, new, key) ==
    IF old # new
    THEN <<[key |-> key, activation |-> IF old THEN 0 ELSE Full]>>
    ELSE <<>>

set_current_input_modifiers(modifiers) ==
    check(current_modifiers.shift, modifiers.shift, "Shift")
      \o check(current_modifiers.ctrl, modifiers.ctrl, "Ctrl")
      \o check(current_modifiers.alt, modifiers.alt, "Alt")
      \o check(current_modifiers.logo, modifiers.logo, "Logo")

\* variant: a tie of the two axes goes to the horizontal one
process_linear_mouse_movementTiesHorizontal(delta_x, delta_y) ==
    IF Abs(delta_x) >= Abs(delta_y)
    THEN IF delta_x > 0
         THEN LinearCall(Mouse("MoveRight"),
                         LinearInputActivation_clamp(f32_mul(delta_x, mouse_sensitivity)))
         ELSE LinearCall(Mouse("MoveLeft"),
                         LinearInputActivation_clamp(f32_mul(0 - delta_x, mouse_sensitivity)))
    ELSE IF delta_y > 0
         THEN LinearCall(Mouse("MoveUp"),
                         LinearInputActivation_clamp(f32_mul(delta_y, mouse_sensitivity)))
         ELSE LinearCall(Mouse("MoveDown"),
                         LinearInputActivation_clamp(f32_mul(0 - delta_y, mouse_sensitivity)))

\* the one linear_input call made for a pointer movement
process_linear_mouse_movement(delta_x, delta_y) ==
    IF Abs(delta_x) > Abs(delta_y)
    THEN IF delta_x > 0
         THEN LinearCall(Mouse("MoveRight"),
                         LinearInputActivation_clamp(f32_mul(delta_x, mouse_sensitivity)))
         ELSE LinearCall(Mouse("MoveLeft"),
                         LinearInputActivation_clamp(f32_mul(0 - delta_x, mouse_sensitivity)))
    ELSE IF delta_y > 0
         THEN LinearCall(Mouse("MoveUp"),
                         LinearInputActivation_clamp(f32_mul(delta_y, mouse_sensitivity)))
         ELSE LinearCall(Mouse("MoveDown"),
                         LinearInputActivation_clamp(f32_mul(0 - delta_y, mouse_sensitivity)))

\* an input arm of process_event: cs are its linear_input and vector_input
\* calls, post what it calls on the window afterwards
InputArm(pre, cs, post) ==
    /\ dispatched' = cs
    /\ handled' = Dispatch(cs)
    /\ calls' = pre \o [i \in 1 .. Len(Dispatch(cs)) |-> Dispatch(cs)[i].callback] \o post
    /\ UNCHANGED <<gFields, exitAtTickStart, toDrain, input_map>>

\* variant: the movement is compared with 2 on the horizontal axis only
CursorMovedByWidth(position, pre) ==
    LET delta_x == position[1] - last_cursor_position[1]
        delta_y == position[2] - last_cursor_position[2]
        center == <<data_size[1] \div 2, data_size[2] \div 2>>
        old_pos == <<cast_u32(position[1]), cast_u32(position[2])>>
    IN  /\ InputArm(pre,
                    (IF Abs(delta_x) > 2
                     THEN <<process_linear_mouse_movement(delta_x, delta_y)>>
                     ELSE <<>>)
                      \o <<VectorCall("MouseMove",
                              VectorInputActivation_clamp(
                                  f32_mul(delta_x, mouse_sensitivity),
                                  f32_mul(delta_y, mouse_sensitivity)))>>,
                    IF should_lock_cursor(input_mode) /\ old_pos # center
                    THEN <<"set_cursor_position">>
                    ELSE <<>>)
        /\ last_cursor_position' = IF should_lock_cursor(input_mode)
                                   THEN center
                                   ELSE position
        /\ UNCHANGED current_modifiers

\* variant: the position reported is kept when the cursor is warped
CursorMovedKeepingPosition(position, pre) ==
    LET delta_x == position[1] - last_cursor_position[1]
        delta_y == position[2] - last_cursor_position[2]
        center == <<data_size[1] \div 2, data_size[2] \div 2>>
        old_pos == <<cast_u32(position[1]), cast_u32(position[2])>>
    IN  /\ InputArm(pre,
                    (IF Abs(delta_x) > 2 \/ Abs(delta_y) > 2
                     THEN <<process_linear_mouse_movement(delta_x, delta_y)>>
                     ELSE <<>>)
                      \o <<VectorCall("MouseMove",
                              VectorInputActivation_clamp(
                                  f32_mul(delta_x, mouse_sensitivity),
                                  f32_mul(delta_y, mouse_sensitivity)))>>,
                    IF should_lock_cursor(input_mode) /\ old_pos # center
                    THEN <<"set_cursor_position">>
                    ELSE <<>>)
        /\ last_cursor_position' = position
        /\ UNCHANGED current_modifiers

\* the WindowEvent::CursorMoved arm of process_event
CursorMoved(position, pre) ==
    LET delta_x == position[1] - last_cursor_position[1]
        delta_y == position[2] - last_cursor_position[2]
        center == <<data_size[1] \div 2, data_size[2] \div 2>>
        old_pos == <<cast_u32(position[1]), cast_u32(position[2])>>
    IN  /\ InputArm(pre,
                    (IF Abs(delta_x) > 2 \/ Abs(delta_y) > 2
                     THEN <<process_linear_mouse_movement(delta_x, delta_y)>>
                     ELSE <<>>)
                      \o <<VectorCall("MouseMove",
                              VectorInputActivation_clamp(
                                  f32_mul(delta_x, mouse_sensitivity),
                                  f32_mul(delta_y, mouse_sensitivity)))>>,
                    IF should_lock_cursor(input_mode) /\ old_pos # center
                    THEN <<"set_cursor_position">>
                    ELSE <<>>)
        /\ last_cursor_position' = IF should_lock_cursor(input_mode)
                                   THEN center
                                   ELSE position
        /\ UNCHANGED current_modifiers

(***************************************************************************)
(* GameState::process_event, up to the point where the handler returns or  *)
(* the redraw tick starts draining.                                        *)
(***************************************************************************)
process_event(event, pre) ==
    \/ /\ event.kind \in {"CloseRequested", "Destroyed"}
       /\ request_exit(pre)
    \/ /\ event.kind = "Resized"
       /\ Resized(event.size, pre)
    \/ /\ event.kind = "ScaleFactorChanged"
       /\ gs_resize(event.size, pre)
       /\ NoInput
       /\ UNCHANGED <<control_flow, exit_flag, cmdq, modeVars, exitAtTickStart, toDrain>>
    \/ /\ event.kind = "RedrawRequested"
       /\ IF event.own
          THEN /\ g_pc' = "drain"
               /\ calls' = pre
               /\ exitAtTickStart' = (\E i \in 1 .. Len(cmdq) : cmdq[i] = Exit)
               /\ toDrain' = Len(cmdq)
               /\ NoInput
               /\ UNCHANGED <<control_flow, exit_flag, cmdq, modeVars, sizeVars>>
          ELSE Ignored(pre)
    \/ /\ event.kind = "ModifiersChanged"
       /\ InputArm(pre,
                   [i \in 1 .. Len(set_current_input_modifiers(event.modifiers)) |->
                      LinearCall(KnownKeyboard(set_current_input_modifiers(event.modifiers)[i].key),
                                 set_current_input_modifiers(event.modifiers)[i].activation)],
                   <<>>)
       /\ current_modifiers' = event.modifiers
       /\ UNCHANGED last_cursor_position
    \/ /\ event.kind = "KeyboardInput"
       /\ InputArm(pre,
                   IF ~event.is_synthetic /\ event.key # "unknown"
                   THEN <<LinearCall(KnownKeyboard(event.key),
                                     IF event.pressed THEN Full ELSE 0)>>
                   ELSE <<>>,
                   <<>>)
       /\ UNCHANGED <<current_modifiers, last_cursor_position>>
    \/ /\ event.kind = "CursorMoved"
       /\ CursorMoved(event.position, pre)
    \/ /\ event.kind \in {"MainEventsCleared", "Resumed", "MouseMotion", "Focused"}
       /\ Ignored(pre)

(***************************************************************************)
(* GameState::receive_event: window events for another window are          *)
(* discarded; the game's process_raw_event sees the event first when the   *)
(* mode propagates raw input or the event is not input-shaped, and may     *)
(* cancel it.                                                              *)
(***************************************************************************)
\* variant: every event for this window goes to process_raw_event
receive_eventAlwaysRaw(event) ==
    IF event.window /\ ~event.own
    THEN Ignored(<<"receive_event">>)
    ELSE \E passed \in BOOLEAN :
            IF passed
            THEN process_event(event,
                     <<"receive_event", "process_raw_event", "process_event">>)
            ELSE Ignored(<<"receive_event", "process_raw_event">>)

receive_event(event) ==
    IF event.window /\ ~event.own
    THEN Ignored(<<"receive_event">>)
    ELSE IF should_propogate_raw_input(input_mode) \/ ~is_input_event(event)
         THEN \E passed \in BOOLEAN :
                 IF passed
                 THEN process_event(event,
                          <<"receive_event", "process_raw_event", "process_event">>)
                 ELSE Ignored(<<"receive_event", "process_raw_event">>)
         ELSE process_event(event, <<"receive_event", "process_event">>)

(***************************************************************************)
(* GameState::pre_frame_update, one try_recv at a time.                    *)
(***************************************************************************)
\* variant: SetInputMode leaves the cursor as it is
ApplyCommandKeepingCursor(cmd) ==
    CASE cmd.cmd = "Exit" ->
           /\ exit_flag' = TRUE
           /\ exitDrained' = TRUE
           /\ UNCHANGED modeVars
      [] cmd.cmd = "SetInputMode" ->
           /\ input_mode' = cmd.mode
           /\ UNCHANGED <<exit_flag, exitDrained, mouse_sensitivity, cursor_visible>>
      [] cmd.cmd = "SetMouseSensitivity" ->
           /\ mouse_sensitivity' = cmd.value
           /\ UNCHANGED <<exit_flag, exitDrained, input_mode, cursor_visible>>

\* the match on a received command
ApplyCommand(cmd) ==
    CASE cmd.cmd = "Exit" ->
           /\ exit_flag' = TRUE
           /\ exitDrained' = TRUE
           /\ UNCHANGED modeVars
      [] cmd.cmd = "SetInputMode" ->
           /\ input_mode' = cmd.mode
           /\ cursor_visible' = ~should_hide_cursor(cmd.mode)
           /\ UNCHANGED <<exit_flag, exitDrained, mouse_sensitivity>>
      [] cmd.cmd = "SetMouseSensitivity" ->
           /\ mouse_sensitivity' = cmd.value
           /\ UNCHANGED <<exit_flag, exitDrained, input_mode, cursor_visible>>

\* variant: the channel hands out the newest command first
DrainStepNewestFirst ==
    /\ Alive
    /\ g_pc = "drain"
    /\ calls' = <<>>
    /\ IF cmdq = <<>>
       THEN /\ g_pc' = "check"
            /\ UNCHANGED <<cmdq, exit_flag, modeVars, exitDrained>>
       ELSE /\ cmdq' = SubSeq(cmdq, 1, Len(cmdq) - 1)
            /\ UNCHANGED g_pc
            /\ ApplyCommand(cmdq[Len(cmdq)])
    /\ toDrain' = IF toDrain > 0 THEN toDrain - 1 ELSE 0
    /\ UNCHANGED <<gLife, control_flow, sizeVars>>
    /\ UNCHANGED <<bringups, finishedCount, exitAtTickStart, expMode, expSens, recorded>>
    /\ UNCHANGED inVars
    /\ UNCHANGED <<rsAll, aqAll, lmAll, lsAll>>

\* variant: `if let` for `while let`, one command is taken per tick
DrainStepOnce ==
    /\ Alive
    /\ g_pc = "drain"
    /\ calls' = <<>>
    /\ g_pc' = "check"
    /\ IF cmdq = <<>>
       THEN UNCHANGED <<cmdq, exit_flag, modeVars, exitDrained>>
       ELSE /\ cmdq' = Tail(cmdq)
            /\ ApplyCommand(Head(cmdq))
    /\ toDrain' = IF toDrain > 0 THEN toDrain - 1 ELSE 0
    /\ UNCHANGED <<gLife, control_flow, sizeVars>>
    /\ UNCHANGED <<bringups, finishedCount, exitAtTickStart, expMode, expSens, recorded>>
    /\ UNCHANGED inVars
    /\ UNCHANGED <<rsAll, aqAll, lmAll, lsAll>>

DrainStep ==
    /\ Alive
    /\ g_pc = "drain"
    /\ calls' = <<>>
    /\ IF cmdq = <<>>
       THEN /\ g_pc' = "check"
            /\ UNCHANGED <<cmdq, exit_flag, modeVars, exitDrained>>
       ELSE /\ cmdq' = Tail(cmdq)
            /\ UNCHANGED g_pc
            /\ ApplyCommand(Head(cmdq))
    /\ toDrain' = IF toDrain > 0 THEN toDrain - 1 ELSE 0
    /\ UNCHANGED <<gLife, control_flow, sizeVars>>
    /\ UNCHANGED <<bringups, finishedCount, exitAtTickStart, expMode, expSens, recorded>>
    /\ UNCHANGED inVars
    /\ UNCHANGED <<rsAll, aqAll, lmAll, lsAll>>

\* variant: the check takes the flag down after reading it
CheckExitClearing ==
    /\ Alive
    /\ g_pc = "check"
    /\ control_flow' = IF exit_flag THEN "Exit" ELSE control_flow
    /\ exit_flag' = FALSE
    /\ g_pc' = "render"
    /\ calls' = <<>>
    /\ UNCHANGED <<gLife, cmdq, modeVars, sizeVars>>
    /\ UNCHANGED <<bringups, finishedCount, exitDrained, exitAtTickStart, qHist, recorded>>
    /\ UNCHANGED inVars
    /\ UNCHANGED <<rsAll, aqAll, lmAll, lsAll>>

\* variant: a set flag ends the tick, no frame is rendered
CheckExitReturning ==
    /\ Alive
    /\ g_pc = "check"
    /\ control_flow' = IF exit_flag THEN "Exit" ELSE control_flow
    /\ g_pc' = IF exit_flag THEN "idle" ELSE "render"
    /\ calls' = <<>>
    /\ UNCHANGED <<gLife, exit_flag, cmdq, modeVars, sizeVars>>
    /\ UNCHANGED <<bringups, finishedCount, exitDrained, exitAtTickStart, qHist, recorded>>
    /\ UNCHANGED inVars
    /\ UNCHANGED <<rsAll, aqAll, lmAll, lsAll>>

\* the exit flag check of the redraw tick
CheckExit ==
    /\ Alive
    /\ g_pc = "check"
    /\ control_flow' = IF exit_flag THEN "Exit" ELSE control_flow
    /\ g_pc' = "render"
    /\ calls' = <<>>
    /\ UNCHANGED <<gLife, exit_flag, cmdq, modeVars, sizeVars>>
    /\ UNCHANGED <<bringups, finishedCount, exitDrained, exitAtTickStart, qHist, recorded>>
    /\ UNCHANGED inVars
    /\ UNCHANGED <<rsAll, aqAll, lmAll, lsAll>>

(***************************************************************************)
(* GameState::render and the match on its result.                          *)
(***************************************************************************)
\* variant: a suboptimal texture is presented and nothing more
renderSuboptimalAsOk(outcome) ==
    CASE outcome = "Ok" ->
           /\ calls' = <<"get_current_texture", "render_to", "present">>
           /\ g_pc' = "idle"
           /\ UNCHANGED <<control_flow, sizeVars>>
      [] outcome = "Suboptimal" ->
           /\ calls' = <<"get_current_texture", "render_to", "present">>
           /\ g_pc' = "idle"
           /\ UNCHANGED <<control_flow, sizeVars>>
      [] outcome = "Lost" ->
           /\ gs_resize(data_size, <<"get_current_texture">>)
           /\ UNCHANGED control_flow
      [] outcome = "OutOfMemory" ->
           /\ control_flow' = "Exit"
           /\ calls' = <<"get_current_texture">>
           /\ g_pc' = "idle"
           /\ UNCHANGED sizeVars
      [] outcome \in {"Outdated", "Timeout"} ->
           /\ calls' = <<"get_current_texture">>
           /\ g_pc' = "idle"
           /\ UNCHANGED <<control_flow, sizeVars>>


\* variant: out of memory is met like a lost surface
renderOutOfMemoryAsLost(outcome) ==
    CASE outcome = "Ok" ->
           /\ calls' = <<"get_current_texture", "render_to", "present">>
           /\ g_pc' = "idle"
           /\ UNCHANGED <<control_flow, sizeVars>>
      [] outcome = "Suboptimal" ->
           /\ gs_resize(data_size, <<"get_current_texture", "render_to", "present">>)
           /\ UNCHANGED control_flow
      [] outcome = "Lost" ->
           /\ gs_resize(data_size, <<"get_current_texture">>)
           /\ UNCHANGED control_flow
      [] outcome = "OutOfMemory" ->
           /\ gs_resize(data_size, <<"get_current_texture">>)
           /\ UNCHANGED control_flow
      [] outcome \in {"Outdated", "Timeout"} ->
           /\ calls' = <<"get_current_texture">>
           /\ g_pc' = "idle"
           /\ UNCHANGED <<control_flow, sizeVars>>


\* variant: every error but a lost surface ends the loop
renderTimeoutExits(outcome) ==
    CASE outcome = "Ok" ->
           /\ calls' = <<"get_current_texture", "render_to", "present">>
           /\ g_pc' = "idle"
           /\ UNCHANGED <<control_flow, sizeVars>>
      [] outcome = "Suboptimal" ->
           /\ gs_resize(data_size, <<"get_current_texture", "render_to", "present">>)
           /\ UNCHANGED control_flow
      [] outcome = "Lost" ->
           /\ gs_resize(data_size, <<"get_current_texture">>)
           /\ UNCHANGED control_flow
      [] outcome = "OutOfMemory" ->
           /\ control_flow' = "Exit"
           /\ calls' = <<"get_current_texture">>
           /\ g_pc' = "idle"
           /\ UNCHANGED sizeVars
      [] outcome \in {"Outdated", "Timeout"} ->
           /\ control_flow' = "Exit"
           /\ calls' = <<"get_current_texture">>
           /\ g_pc' = "idle"
           /\ UNCHANGED sizeVars


\* variant: render_to is called before the texture is asked for
renderWithoutTexture(outcome) ==
    CASE outcome = "Ok" ->
           /\ calls' = <<"get_current_texture", "render_to", "present">>
           /\ g_pc' = "idle"
           /\ UNCHANGED <<control_flow, sizeVars>>
      [] outcome = "Suboptimal" ->
           /\ gs_resize(data_size, <<"get_current_texture", "render_to", "present">>)
           /\ UNCHANGED control_flow
      [] outcome = "Lost" ->
           /\ gs_resize(data_size, <<"get_current_texture">>)
           /\ UNCHANGED control_flow
      [] outcome = "OutOfMemory" ->
           /\ control_flow' = "Exit"
           /\ calls' = <<"get_current_texture">>
           /\ g_pc' = "idle"
           /\ UNCHANGED sizeVars
      [] outcome \in {"Outdated", "Timeout"} ->
           /\ calls' = <<"render_to", "get_current_texture">>
           /\ g_pc' = "idle"
           /\ UNCHANGED <<control_flow, sizeVars>>


\* render: get_current_texture fails with a SurfaceError, or gives a texture
\* whose view goes to render_to and which is then presented; a suboptimal
\* texture makes render return Lost.  Then the match on render's result.
render(outcome) ==
    CASE outcome = "Ok" ->
           /\ calls' = <<"get_current_texture", "render_to", "present">>
           /\ g_pc' = "idle"
           /\ UNCHANGED <<control_flow, sizeVars>>
      [] outcome = "Suboptimal" ->
           /\ gs_resize(data_size, <<"get_current_texture", "render_to", "present">>)
           /\ UNCHANGED control_flow
      [] outcome = "Lost" ->
           /\ gs_resize(data_size, <<"get_current_texture">>)
           /\ UNCHANGED control_flow
      [] outcome = "OutOfMemory" ->
           /\ control_flow' = "Exit"
           /\ calls' = <<"get_current_texture">>
           /\ g_pc' = "idle"
           /\ UNCHANGED sizeVars
      [] outcome \in {"Outdated", "Timeout"} ->
           /\ calls' = <<"get_current_texture">>
           /\ g_pc' = "idle"
           /\ UNCHANGED <<control_flow, sizeVars>>

\* the end of the redraw tick
RenderStep(outcome) ==
    /\ Alive
    /\ g_pc = "render"
    /\ render(outcome)
    /\ exitAtTickStart' = FALSE
    /\ UNCHANGED <<gLife, exit_flag, cmdq, modeVars>>
    /\ UNCHANGED <<bringups, finishedCount, exitDrained, qHist>>
    /\ UNCHANGED inVars
    /\ UNCHANGED <<rsAll, aqAll, lmAll, lsAll>>

Render ==
    /\ \E outcome \in RenderOutcomes : RenderStep(outcome)
    /\ UNCHANGED recorded

\* the end of the redraw tick, recorded
RenderToState ==
    \E outcome \in RenderOutcomes :
       /\ RenderStep(outcome)
       /\ render_result' = outcome
       /\ UNCHANGED last_event

(***************************************************************************)
(* The closure given to event_loop.run, one event at a time.               *)
(***************************************************************************)
CountResumed(event) ==
    resumed' = IF event.kind = "Resumed" /\ resumed < 2 THEN resumed + 1 ELSE resumed

\* LoopDestroyed: the state is taken out and finished; the expect panics when
\* there is none.  The platform delivers it last, once, between two events:
\* when control flow is Exit, or when it tears the loop down itself (on the
\* web, when the page is unloaded); Resumed, emitted at start, comes before.
LoopDestroyed ==
    /\ Alive
    /\ g_pc = "idle"
    /\ resumed > 0
    /\ loop_destroyed' = TRUE
    /\ IF state_some
       THEN /\ state_some' = FALSE
            /\ finishedCount' = finishedCount + 1
            /\ calls' = <<"finished">>
            /\ UNCHANGED panicked
       ELSE /\ panicked' = "loop is destroyed once"
            /\ calls' = <<>>
            /\ UNCHANGED <<state_some, finishedCount>>
    /\ UNCHANGED recorded
    /\ UNCHANGED <<build, init_some, task, state_channel, resumed, gFields>>
    /\ UNCHANGED <<bringups, exitDrained, exitAtTickStart, qHist>>
    /\ UNCHANGED inVars
    /\ UNCHANGED <<rsAll, aqAll, lmAll, lsAll>>

\* variant: the Resumed arm builds a state without taking init out
ResumedSpawnsKeepingInit ==
    /\ Alive
    /\ g_pc = "idle"
    /\ build = "wasm"
    /\ ~state_some
    /\ init_some
    /\ task \in {"none", "adapter", "device"}
    /\ task' = "adapter"
    /\ bringups' = bringups + 1
    /\ calls' = <<>>
    /\ resumed' = IF resumed < 2 THEN resumed + 1 ELSE resumed
    /\ UNCHANGED <<build, init_some, state_channel, state_some, panicked, loop_destroyed,
                   gFields>>
    /\ UNCHANGED recorded
    /\ UNCHANGED <<finishedCount, exitDrained, exitAtTickStart, qHist>>
    /\ UNCHANGED inVars
    /\ UNCHANGED <<rsAll, aqAll, lmAll, lsAll>>

\* the first Resumed on wasm: block_on is spawn_local, the future runs later,
\* the state is not there yet and the event is dropped
ResumedSpawns ==
    /\ Alive
    /\ g_pc = "idle"
    /\ build = "wasm"
    /\ ~state_some
    /\ init_some
    /\ init_some' = FALSE
    /\ task' = "adapter"
    /\ bringups' = bringups + 1
    /\ calls' = <<>>
    /\ resumed' = IF resumed < 2 THEN resumed + 1 ELSE resumed
    /\ UNCHANGED <<build, state_channel, state_some, panicked, loop_destroyed, gFields>>
    /\ UNCHANGED recorded
    /\ UNCHANGED <<finishedCount, exitDrained, exitAtTickStart, qHist>>
    /\ UNCHANGED inVars
    /\ UNCHANGED <<rsAll, aqAll, lmAll, lsAll>>

\* the spawned future: request_adapter, then request_device, Game::init and
\* the send of the state; a failure ends in on_init_failure
BringUpTask ==
    /\ Alive
    /\ g_pc = "idle"
    /\ build = "wasm"
    /\ \E ok \in BOOLEAN :
          \/ /\ task = "adapter"
             /\ IF ok
                THEN task' = "device" /\ UNCHANGED panicked
                ELSE panicked' = "on_init_failure" /\ UNCHANGED task
             /\ UNCHANGED <<state_channel, cmdq, calls, expMode>>
          \/ /\ task = "device"
             /\ IF ok
                THEN /\ task' = "done"
                     /\ state_channel' = "full"
                     /\ cmdq' = <<SetInputMode("Unified")>>
                     /\ expMode' = "Unified"
                     /\ calls' = <<"init">>
                     /\ UNCHANGED panicked
                ELSE /\ panicked' = "on_init_failure"
                     /\ UNCHANGED <<task, state_channel, cmdq, calls, expMode>>
    /\ UNCHANGED <<build, init_some, state_some, loop_destroyed, resumed>>
    /\ UNCHANGED <<control_flow, exit_flag, modeVars, sizeVars, g_pc>>
    /\ UNCHANGED <<bringups, finishedCount, exitDrained, exitAtTickStart, expSens, toDrain,
                   recorded>>
    /\ UNCHANGED inVars
    /\ UNCHANGED <<rsAll, aqAll, lmAll, lsAll>>

\* the first Resumed on native: block_on runs bring-up to its end, the state
\* is sent, received at once, and Resumed is given to receive_event
ResumedBuilds ==
    /\ Alive
    /\ g_pc = "idle"
    /\ build = "native"
    /\ ~state_some
    /\ init_some
    /\ init_some' = FALSE
    /\ bringups' = bringups + 1
    /\ resumed' = IF resumed < 2 THEN resumed + 1 ELSE resumed
    /\ \E ok \in BOOLEAN :
          IF ok
          THEN /\ task' = "done"
               /\ state_some' = TRUE
               /\ cmdq' = <<SetInputMode("Unified")>>
               /\ expMode' = "Unified"
               /\ \E passed \in BOOLEAN :
                     calls' = IF passed
                              THEN <<"init", "receive_event", "process_raw_event",
                                     "process_event">>
                              ELSE <<"init", "receive_event", "process_raw_event">>
               /\ UNCHANGED panicked
          ELSE /\ panicked' = "on_init_failure"
               /\ UNCHANGED <<task, state_some, cmdq, calls, expMode>>
    /\ UNCHANGED recorded
    /\ UNCHANGED <<build, state_channel, loop_destroyed>>
    /\ UNCHANGED <<control_flow, exit_flag, modeVars, sizeVars, g_pc>>
    /\ UNCHANGED <<finishedCount, exitDrained, exitAtTickStart, expSens, toDrain>>
    /\ UNCHANGED inVars
    /\ UNCHANGED <<rsAll, aqAll, lmAll, lsAll>>

\* any other event while there is no state: the state is received if it has
\* been sent and the event goes to receive_event, else the event is dropped
EventBeforeState(event) ==
    /\ Alive
    /\ g_pc = "idle"
    /\ ~state_some
    /\ ~(event.kind = "Resumed" /\ init_some)
    /\ CountResumed(event)
    /\ IF state_channel = "full"
       THEN /\ state_channel' = "empty"
            /\ state_some' = TRUE
            /\ receive_event(event)
       ELSE /\ Ignored(<<>>)
            /\ UNCHANGED <<state_channel, state_some>>
    /\ UNCHANGED <<build, init_some, task, panicked, loop_destroyed>>
    /\ UNCHANGED <<bringups, finishedCount, exitDrained, expMode, expSens>>
    /\ UNCHANGED <<rsAll, aqAll, lmAll, lsAll>>

\* an event while the state exists
EventWithState(event) ==
    /\ Alive
    /\ g_pc = "idle"
    /\ state_some
    /\ receive_event(event)
    /\ UNCHANGED gLife
    /\ UNCHANGED <<bringups, finishedCount, exitDrained, expMode, expSens>>
    /\ UNCHANGED <<rsAll, aqAll, lmAll, lsAll>>

Deliver ==
    /\ \E event \in Events : EventBeforeState(event) \/ EventWithState(event)
    /\ UNCHANGED recorded

\* an event while the state exists, recorded
DeliverToState ==
    \E event \in Events :
       /\ EventWithState(event)
       /\ last_event' = event
       /\ UNCHANGED render_result

(***************************************************************************)
(* A producer (a game thread or callback holding a clone of                *)
(* data.command_sender) sends a command.                                   *)
(***************************************************************************)
Send(cmd) ==
    /\ Alive
    /\ task = "done"
    /\ Len(cmdq) < MaxQueue
    /\ cmdq' = Append(cmdq, cmd)
    /\ expMode' = IF cmd.cmd = "SetInputMode" THEN cmd.mode ELSE expMode
    /\ expSens' = IF cmd.cmd = "SetMouseSensitivity" THEN cmd.value ELSE expSens
    /\ UNCHANGED <<gLife, control_flow, exit_flag, modeVars, sizeVars, g_pc>>
    /\ UNCHANGED <<bringups, finishedCount, calls, exitDrained, exitAtTickStart, toDrain,
                   recorded>>
    /\ UNCHANGED inVars
    /\ UNCHANGED <<rsAll, aqAll, lmAll, lsAll>>

Produce == \E cmd \in GameCommand : Send(cmd)

\* the ResizableSurface of a specification that does not move it
SurfaceParked == RSNew /\ rs_config = <<1, 1>>

\* the run of a specification that does not move it
GameParked ==
    RunInit /\ GameStateNew /\ build = "native" /\ data_size = <<1, 1>> /\ input_map = LinearBindings

(***************************************************************************)
(* adapter_query.rs.  An adapter is what the query and the ranking read of *)
(* it: get_info().device_type, get_info().device, whether it supports the  *)
(* query's surface, and limits().                                          *)
(***************************************************************************)
DeviceType == {"DiscreteGpu", "IntegratedGpu", "VirtualGpu", "Other", "Cpu"}

\* variant: a plain CPU is put above Other
device_type_rankingCpuOverOther(dt) ==
    CASE dt = "DiscreteGpu" -> 4
      [] dt = "IntegratedGpu" -> 3
      [] dt = "VirtualGpu" -> 2
      [] dt = "Other" -> 0
      [] dt = "Cpu" -> 1

device_type_ranking(dt) ==
    CASE dt = "DiscreteGpu" -> 4
      [] dt = "IntegratedGpu" -> 3
      [] dt = "VirtualGpu" -> 2
      [] dt = "Other" -> 1
      [] dt = "Cpu" -> 0

\* the six fields of wgpu::Limits that compare_limits reads, from a tuple
\* in the order it reads them
Limits(t) ==
    [max_buffer_size |-> t[1],
     max_compute_workgroup_storage_size |-> t[2],
     max_push_constant_size |-> t[3],
     max_texture_dimension_2d |-> t[4],
     max_texture_dimension_1d |-> t[5],
     max_texture_dimension_3d |-> t[6]]

\* Ord::cmp and Ordering::then
cmp(a, b) == IF a < b THEN "Less" ELSE IF a > b THEN "Greater" ELSE "Equal"

then(first, second) == IF first # "Equal" THEN first ELSE second

compare_limits(lim1, lim2) ==
    then(then(then(then(then(
        cmp(lim1.max_buffer_size, lim2.max_buffer_size),
        cmp(lim1.max_compute_workgroup_storage_size, lim2.max_compute_workgroup_storage_size)),
        cmp(lim1.max_push_constant_size, lim2.max_push_constant_size)),
        cmp(lim1.max_texture_dimension_2d, lim2.max_texture_dimension_2d)),
        cmp(lim1.max_texture_dimension_1d, lim2.max_texture_dimension_1d)),
        cmp(lim1.max_texture_dimension_3d, lim2.max_texture_dimension_3d))

\* AdapterQuery::is_adapter_allowed
is_adapter_allowed(q, adapter) ==
    /\ q.force_adapter_type # <<>> => q.force_adapter_type[1] = adapter.device_type
    /\ q.compatible_surface => adapter.surface_supported
    /\ \A i \in 1 .. Len(q.physical_blacklist) : adapter.device # q.physical_blacklist[i]

\* Iterator::max_by_key(device_type_ranking) over the device types: of
\* several maximal elements the last is returned
RECURSIVE max_by_key(_)
max_by_key(types) ==
    IF Len(types) = 1
    THEN types[1]
    ELSE LET rest == max_by_key(Tail(types))
         IN  IF device_type_ranking(Head(types)) > device_type_ranking(rest)
             THEN Head(types)
             ELSE rest

\* Iterator::max_by(compare_limits) over the adapters, the last of several
\* maximal ones
RECURSIVE max_by(_)
max_by(adapters) ==
    IF Len(adapters) = 1
    THEN adapters[1]
    ELSE LET rest == max_by(Tail(adapters))
         IN  IF compare_limits(Head(adapters).limits, rest.limits) = "Greater"
             THEN Head(adapters)
             ELSE rest

\* variant: the best limits are looked for among all allowed adapters
request_powerful_adapterAnyType(adapters, q) ==
    LET Allowed(adapter) == is_adapter_allowed(q, adapter)
        all == SelectSeq(adapters, Allowed)
    IN  IF all = <<>> THEN <<>> ELSE <<max_by(all)>>

\* request_powerful_adapter; the Option is a sequence of at most one adapter
request_powerful_adapter(adapters, q) ==
    LET Allowed(adapter) == is_adapter_allowed(q, adapter)
        all == SelectSeq(adapters, Allowed)
    IN  IF all = <<>>
        THEN <<>>
        ELSE LET best_device_type ==
                     max_by_key([i \in 1 .. Len(all) |-> all[i].device_type])
                 OfBest(adapter) == adapter.device_type = best_device_type
             IN  <<max_by(SelectSeq(all, OfBest))>>

\* limits that differ in one field each, and two that differ in the first
\* field against all the others
AdapterLimits ==
    {Limits([k \in 1 .. 6 |-> IF k = i THEN 1 ELSE 0]) : i \in 1 .. 6}
      \cup {Limits(<<0, 1, 1, 1, 1, 1>>), Limits(<<0, 0, 0, 0, 0, 0>>)}

\* the adapters of an instance: of every type, device and surface support
\* with two of the limits, and of one type with every limits
Adapters ==
    {a \in [device_type : DeviceType, device : 1 .. 2, surface_supported : BOOLEAN,
            limits : AdapterLimits] :
        \/ a.limits \in {Limits(<<1, 0, 0, 0, 0, 0>>), Limits(<<0, 1, 1, 1, 1, 1>>)}
        \/ a.device_type = "DiscreteGpu" /\ a.device = 2 /\ a.surface_supported}

\* the queries: a type forced or not, a surface or not, a device blacklisted or not
Queries ==
    [force_adapter_type : {<<>>, <<"IntegratedGpu">>}, compatible_surface : BOOLEAN,
     physical_blacklist : {<<>>, <<1>>}]

\* adapter_query.rs in a specification that does not call it
AdapterParked ==
    /\ instance_adapters = <<>>
    /\ query = [force_adapter_type |-> <<>>, compatible_surface |-> FALSE,
                physical_blacklist |-> <<>>]
    /\ returned = "pending"



(***************************************************************************)
(* limits.rs: the element-wise minimum and maximum of two wgpu::Limits     *)
(***************************************************************************)

\* the fields binop_limits! lists under max
MaxFields ==
    {"max_texture_dimension_1d", "max_texture_dimension_2d", "max_texture_dimension_3d",
     "max_texture_array_layers", "max_bind_groups", "max_bindings_per_bind_group",
     "max_dynamic_uniform_buffers_per_pipeline_layout",
     "max_dynamic_storage_buffers_per_pipeline_layout",
     "max_sampled_textures_per_shader_stage", "max_samplers_per_shader_stage",
     "max_storage_buffers_per_shader_stage", "max_storage_textures_per_shader_stage",
     "max_uniform_buffers_per_shader_stage", "max_uniform_buffer_binding_size",
     "max_storage_buffer_binding_size", "max_vertex_buffers", "max_buffer_size",
     "max_vertex_attributes", "max_vertex_buffer_array_stride",
     "max_inter_stage_shader_components", "max_compute_workgroup_storage_size",
     "max_compute_invocations_per_workgroup", "max_compute_workgroup_size_x",
     "max_compute_workgroup_size_y", "max_compute_workgroup_size_z",
     "max_compute_workgroups_per_dimension", "max_push_constant_size"}

\* the fields binop_limits! lists under min
MinFields ==
    {"min_uniform_buffer_offset_alignment", "min_storage_buffer_offset_alignment"}

\* the struct literal names every field of wgpu::Limits
LimitFields == MaxFields \cup MinFields

\* std::cmp::min, std::cmp::max
min(a, b) == IF a <= b THEN a ELSE b
max(a, b) == IF a >= b THEN a ELSE b

\* $op(x, y) for the identifier the macro is given
call(op, x, y) == IF op = "min" THEN min(x, y) ELSE max(x, y)

\* binop_limits!((op_on_max, op_on_min)(a, b))
binop_limits(op_on_max, op_on_min, a, b) ==
    [f \in LimitFields |->
        IF f \in MaxFields THEN call(op_on_max, a[f], b[f]) ELSE call(op_on_min, a[f], b[f])]

\* variant: the minimum of every field
limits_intersectionAllMin(lhs, rhs) == binop_limits("min", "min", lhs, rhs)

limits_intersection(lhs, rhs) == binop_limits("min", "max", lhs, rhs)

\* variant: the maximum of every field
limits_unionAllMax(lhs, rhs) == binop_limits("max", "max", lhs, rhs)

limits_union(lhs, rhs) == binop_limits("max", "min", lhs, rhs)

\* limits with one value in every field
UniformLimits(v) == [f \in LimitFields |-> v]

\* the limits given: uniform ones, and those that differ from uniform ones
\* in one field
LimitsGiven ==
    {[UniformLimits(u) EXCEPT ![f] = v] :
        u \in 0 .. MaxLimit, v \in 0 .. MaxLimit, f \in LimitFields}

NoLimits == [op |-> "none", value |-> UniformLimits(0)]

\* limits.rs in a specification that does not call it
LimitsParked ==
    /\ limits_lhs = UniformLimits(0)
    /\ limits_rhs = UniformLimits(0)
    /\ limits_out = NoLimits

LimitsInit ==
    /\ limits_lhs \in LimitsGiven
    /\ limits_rhs \in LimitsGiven
    /\ limits_out = NoLimits
    /\ SurfaceParked
    /\ GameParked
    /\ AdapterParked
    /\ StorageParked

\* a call of limits_intersection
LimitsIntersection ==
    /\ limits_out.op = "none"
    /\ limits_out' = [op |-> "limits_intersection",
                      value |-> limits_intersection(limits_lhs, limits_rhs)]
    /\ UNCHANGED <<limits_lhs, limits_rhs>>
    /\ UNCHANGED <<rsAll, gAll, aqAll, lsAll>>

\* a call of limits_union
LimitsUnion ==
    /\ limits_out.op = "none"
    /\ limits_out' = [op |-> "limits_union",
                      value |-> limits_union(limits_lhs, limits_rhs)]
    /\ UNCHANGED <<limits_lhs, limits_rhs>>
    /\ UNCHANGED <<rsAll, gAll, aqAll, lsAll>>

LimitsNext == LimitsIntersection \/ LimitsUnion

LimitsSpec == LimitsInit /\ [][LimitsNext]_vars

AdapterInit ==
    /\ instance_adapters \in UNION {[1 .. n -> Adapters] : n \in 0 .. MaxAdapters}
    /\ query \in Queries
    /\ returned = "pending"
    /\ SurfaceParked
    /\ GameParked
    /\ LimitsParked
    /\ StorageParked

\* the call
RequestPowerfulAdapter ==
    /\ returned = "pending"
    /\ returned' = request_powerful_adapter(instance_adapters, query)
    /\ UNCHANGED <<instance_adapters, query>>
    /\ UNCHANGED <<rsAll, gAll, lmAll, lsAll>>

AdapterNext == RequestPowerfulAdapter

AdapterSpec == AdapterInit /\ [][AdapterNext]_vars


SurfaceInit == RSNew /\ GameParked /\ AdapterParked /\ LimitsParked /\ StorageParked

SurfaceSpec == SurfaceInit /\ [][SurfaceNext]_vars

\* The surface where submitted work finishes, every closure the queue holds
\* is run, and the event loop calls get on every tick and each get runs to
\* its return.
SurfaceFairness ==
    /\ WF_vars(WorkFinishes)
    /\ WF_vars(CallbackFires)
    /\ WF_vars(GetCall)
    /\ WF_vars(GetStep)

SurfaceFairSpec == SurfaceSpec /\ SurfaceFairness

GameInit ==
    RunInit /\ GameStateNew /\ input_map = LinearBindings /\ SurfaceParked /\ AdapterParked /\ LimitsParked /\ StorageParked

GameNext ==
    \/ LoopDestroyed
    \/ ResumedSpawns
    \/ BringUpTask
    \/ ResumedBuilds
    \/ Deliver
    \/ DrainStep
    \/ CheckExit
    \/ Render
    \/ WorkDoneSend
    \/ ResizeFinish
    \/ Produce

GameSpec == GameInit /\ [][GameNext]_vars

(***************************************************************************)
(* The state GameState::new returns on a native build, received by the     *)
(* closure on the first Resumed: the command channel holds the seed, the   *)
(* fields have their initial values.  StateSpec runs the handler from      *)
(* there and records each event given to it; no producer sends commands,   *)
(* the channel holds the seed and what user_exit_requested enqueues.       *)
(***************************************************************************)
StateReceived ==
    /\ init_some = FALSE
    /\ task = "done"
    /\ state_channel = "empty"
    /\ state_some = TRUE
    /\ panicked = "none"
    /\ loop_destroyed = FALSE
    /\ resumed = 1
    /\ control_flow = "Poll"
    /\ exit_flag = FALSE
    /\ cmdq = <<SetInputMode("Unified")>>
    /\ input_mode = "Unified"
    /\ mouse_sensitivity = DefaultSensitivity
    /\ cursor_visible = TRUE
    /\ data_size \in {s \in WindowSizes : s[1] > 0 /\ s[2] > 0}
    /\ data_config = data_size
    /\ g_surface = data_size
    /\ g_pc = "idle"
    /\ work_done = "none"
    /\ bringups = 1
    /\ finishedCount = 0
    /\ calls = <<"init">>
    /\ exitDrained = FALSE
    /\ exitAtTickStart = FALSE
    /\ expMode = "Unified"
    /\ expSens = DefaultSensitivity
    /\ toDrain = 0
    /\ last_event = NoEvent
    /\ render_result = "none"
    /\ current_modifiers = ModifiersDefault
    /\ last_cursor_position = <<0, 0>>
    /\ input_map = LinearBindings
    /\ dispatched = <<>>
    /\ handled = <<>>
    /\ SurfaceParked
    /\ AdapterParked
    /\ LimitsParked

StateNewReturns == build = "native" /\ StateReceived

StateInit == StateNewReturns /\ StorageParked

StateNext ==
    \/ DeliverToState
    \/ DrainStep
    \/ CheckExit
    \/ Render
    \/ WorkDoneSend
    \/ ResizeFinish
    \/ LoopDestroyed

StateSpec == StateInit /\ [][StateNext]_vars

\* the same state, for everything load may give for the key of the bindings
StoredInit == StateNewReturns /\ local_storage \in Loads

StoredSpec == StoredInit /\ [][StateNext]_vars

(***************************************************************************)
(* The same state, where Game::init may have sent one command through      *)
(* data.command_sender after the seed.  TickSpec runs the handler from     *)
(* there and records each event given to it and what each render came to.  *)
(***************************************************************************)
TickInit ==
    /\ build = "native"
    /\ init_some = FALSE
    /\ task = "done"
    /\ state_channel = "empty"
    /\ state_some = TRUE
    /\ panicked = "none"
    /\ loop_destroyed = FALSE
    /\ resumed = 1
    /\ control_flow = "Poll"
    /\ exit_flag = FALSE
    /\ \E sent \in {<<>>} \cup {<<cmd>> : cmd \in GameCommand} :
          /\ cmdq = <<SetInputMode("Unified")>> \o sent
          /\ expMode = IF sent # <<>> /\ sent[1].cmd = "SetInputMode"
                       THEN sent[1].mode
                       ELSE "Unified"
          /\ expSens = IF sent # <<>> /\ sent[1].cmd = "SetMouseSensitivity"
                       THEN sent[1].value
                       ELSE DefaultSensitivity
    /\ input_mode = "Unified"
    /\ mouse_sensitivity = DefaultSensitivity
    /\ cursor_visible = TRUE
    /\ data_size \in {s \in WindowSizes : s[1] > 0 /\ s[2] > 0}
    /\ data_config = data_size
    /\ g_surface = data_size
    /\ g_pc = "idle"
    /\ work_done = "none"
    /\ bringups = 1
    /\ finishedCount = 0
    /\ calls = <<"init">>
    /\ exitDrained = FALSE
    /\ exitAtTickStart = FALSE
    /\ toDrain = 0
    /\ last_event = NoEvent
    /\ render_result = "none"
    /\ current_modifiers = ModifiersDefault
    /\ last_cursor_position = <<0, 0>>
    /\ input_map = LinearBindings
    /\ dispatched = <<>>
    /\ handled = <<>>
    /\ SurfaceParked
    /\ AdapterParked
    /\ LimitsParked
    /\ StorageParked

TickNext ==
    \/ DeliverToState
    \/ DrainStep
    \/ CheckExit
    \/ RenderToState
    \/ WorkDoneSend
    \/ ResizeFinish
    \/ LoopDestroyed

TickSpec == TickInit /\ [][TickNext]_vars

(***************************************************************************)
(* The redraw ticks of the state GameState::new returns, with producers:   *)
(* threads holding a clone of data.command_sender send commands at any     *)
(* time, the drain included.  The event-loop thread runs on: each step of  *)
(* the handler that can be taken is taken; nothing makes a producer send   *)
(* or the platform ask for a redraw.                                       *)
(***************************************************************************)
RedrawRequested == [kind |-> "RedrawRequested", window |-> FALSE, own |-> TRUE]

DeliverRedraw ==
    /\ EventWithState(RedrawRequested)
    /\ last_event' = RedrawRequested
    /\ UNCHANGED render_result

ProducerNext ==
    \/ DeliverRedraw
    \/ DrainStep
    \/ CheckExit
    \/ RenderToState
    \/ WorkDoneSend
    \/ ResizeFinish
    \/ Produce

ProducerSpec == StateInit /\ [][ProducerNext]_vars

HandlerFairness ==
    /\ WF_vars(DrainStep)
    /\ WF_vars(CheckExit)
    /\ WF_vars(RenderToState)
    /\ WF_vars(WorkDoneSend)
    /\ WF_vars(ResizeFinish)

ProducerFairSpec == ProducerSpec /\ HandlerFairness

(***************************************************************************)
(* The state once the closure has received it, on either build, given the  *)
(* events that lead to GameState::resize: Resized and ScaleFactorChanged   *)
(* for its window, and redraws, whose render may lose the surface.         *)
(***************************************************************************)
ResizeEvents ==
    {RedrawRequested} \cup {e \in WindowEvents : e.own /\ e.kind \in {"Resized", "ScaleFactorChanged"}}

DeliverResize ==
    \E event \in ResizeEvents :
       /\ EventWithState(event)
       /\ last_event' = event
       /\ UNCHANGED render_result

ResizeInit == build \in {"native", "wasm"} /\ StateReceived /\ StorageParked

ResizeNext ==
    \/ DeliverResize
    \/ DrainStep
    \/ CheckExit
    \/ RenderToState
    \/ WorkDoneSend
    \/ ResizeFinish

ResizeSpec == ResizeInit /\ [][ResizeNext]_vars

ResizeFairSpec == ResizeSpec /\ HandlerFairness

(***************************************************************************)
(* The state between two ticks, after some drains: any input mode with the *)
(* cursor to match, any sensitivity and an empty channel, with any of the  *)
(* input maps.  InputSpec gives it input events.                           *)
(***************************************************************************)
InputInit ==
    /\ build = "native"
    /\ init_some = FALSE
    /\ task = "done"
    /\ state_channel = "empty"
    /\ state_some = TRUE
    /\ panicked = "none"
    /\ loop_destroyed = FALSE
    /\ resumed = 1
    /\ control_flow = "Poll"
    /\ exit_flag = FALSE
    /\ cmdq = <<>>
    /\ input_mode \in InputMode
    /\ mouse_sensitivity \in Sensitivities
    /\ cursor_visible = ~should_hide_cursor(input_mode)
    /\ data_size \in {s \in WindowSizes : s[1] > 0 /\ s[2] > 0}
    /\ data_config = data_size
    /\ g_surface = data_size
    /\ g_pc = "idle"
    /\ work_done = "none"
    /\ bringups = 1
    /\ finishedCount = 0
    /\ calls = <<>>
    /\ exitDrained = FALSE
    /\ exitAtTickStart = FALSE
    /\ expMode = input_mode
    /\ expSens = mouse_sensitivity
    /\ toDrain = 0
    /\ last_event = NoEvent
    /\ render_result = "none"
    /\ current_modifiers = ModifiersDefault
    /\ last_cursor_position = <<0, 0>>
    /\ input_map \in InputMaps
    /\ dispatched = <<>>
    /\ handled = <<>>
    /\ SurfaceParked
    /\ AdapterParked
    /\ LimitsParked
    /\ StorageParked

\* an input event, or one that is not input-shaped, while the state exists
DeliverInput ==
    \E event \in InputEvents \cup OtherEvents :
       /\ EventWithState(event)
       /\ last_event' = event
       /\ UNCHANGED render_result

InputNext == DeliverInput

InputSpec == InputInit /\ [][InputNext]_vars

\* a ModifiersChanged event while the state exists
DeliverModifiers ==
    \E event \in ModifierEvents :
       /\ EventWithState(event)
       /\ last_event' = event
       /\ UNCHANGED render_result

ModifierNext == DeliverModifiers

ModifierSpec == InputInit /\ [][ModifierNext]_vars

(***************************************************************************)
(* The state between two ticks, after a drain that applied any             *)
(* SetInputMode and any SetMouseSensitivity, with the pointer's vector     *)
(* input bound.  PointerSpec gives it CursorMoved events.                  *)
(***************************************************************************)
PointerInit ==
    /\ build = "native"
    /\ init_some = FALSE
    /\ task = "done"
    /\ state_channel = "empty"
    /\ state_some = TRUE
    /\ panicked = "none"
    /\ loop_destroyed = FALSE
    /\ resumed = 1
    /\ control_flow = "Poll"
    /\ exit_flag = FALSE
    /\ cmdq = <<>>
    /\ input_mode \in InputMode
    /\ mouse_sensitivity \in PointerSensitivities
    /\ cursor_visible = ~should_hide_cursor(input_mode)
    /\ data_size \in {s \in WindowSizes : s[1] > 0 /\ s[2] > 0}
    /\ data_config = data_size
    /\ g_surface = data_size
    /\ g_pc = "idle"
    /\ work_done = "none"
    /\ bringups = 1
    /\ finishedCount = 0
    /\ calls = <<>>
    /\ exitDrained = FALSE
    /\ exitAtTickStart = FALSE
    /\ expMode = input_mode
    /\ expSens = mouse_sensitivity
    /\ toDrain = 0
    /\ last_event = NoEvent
    /\ render_result = "none"
    /\ current_modifiers = ModifiersDefault
    /\ last_cursor_position = <<0, 0>>
    /\ input_map = assign_vector(LinearBindings, "MouseMove", "Look")
    /\ dispatched = <<>>
    /\ handled = <<>>
    /\ SurfaceParked
    /\ AdapterParked
    /\ LimitsParked
    /\ StorageParked

\* a CursorMoved event while the state exists
DeliverPointer ==
    \E event \in PointerEvents :
       /\ EventWithState(event)
       /\ last_event' = event
       /\ UNCHANGED render_result

PointerNext == DeliverPointer

PointerSpec == PointerInit /\ [][PointerNext]_vars

(***************************************************************************)
(* Claims about ResizableSurface, checked under SurfaceSpec.               *)
(***************************************************************************)

\* C1: the surface is reconfigured only inside get, and whenever get
\* reconfigures it, no GPU work submitted before the most recent resize is
\* still executing (every submission up to resizeMark has completed).
C1_ReconfigureOnlyWhenWorkDone ==
    [][(rs_surface' # rs_surface \/ getConfigs' > getConfigs)
          => (rs_pc = "configure" /\ completed >= resizeMark)]_vars

\* C2: while the caller holds a surface that get returned, the size the
\* surface was last configured with is the size of the most recent resize
\* (the initial configuration if there was none).
C2_NoStaleSurface == rs_held => rs_surface = requested

C2_Witness ==
    /\ rs_held
    /\ resizes >= 2
    /\ getConfigs = 1
    /\ rs_surface # <<0, 0>>

\* C3: a get whose load finds ResizingQueued returns None in that step,
\* without configuring the surface and without changing the state, the
\* configuration or the pending size.
C3_GetWhileQueuedIsNotReady ==
    [][(rs_pc = "load" /\ rs_pc' # "load" /\ decode(rs_state) = "ResizingQueued")
          => /\ rs_ret' = "None"
             /\ rs_pc' = "idle"
             /\ ~rs_held'
             /\ getConfigs' = getConfigs
             /\ UNCHANGED <<rs_state, rs_config, rs_new_size, rs_surface>>]_vars

C3_Witness ==
    /\ rs_pc = "idle"
    /\ observed = "ResizingQueued"
    /\ rs_ret = "None"
    /\ rs_surface # rs_new_size

\* C4: between two resizes the surface is reconfigured at most once; the get
\* that finds Inactive reconfigures exactly once, with the pending size, leaves
\* the state Active and returns the surface; a get that finds Active returns
\* the surface without reconfiguring; the state stays Active until a resize.
C4_OneReconfigurePerResize ==
    /\ cfgSinceResize <= 1
    /\ (rs_pc = "idle" /\ observed = "Inactive") => (rs_ret = "Some" /\ getConfigs = 1)
    /\ (rs_pc = "idle" /\ observed = "Active") => (rs_ret = "Some" /\ getConfigs = 0)
    /\ rs_held => decode(rs_state) = "Active"
    /\ (rs_held /\ resizes > 0) => (cfgSinceResize = 1 /\ rs_surface = rs_new_size)
    /\ cfgSinceResize = 1 => (decode(rs_state) = "Active" \/ rs_pc = "cas")

C4_Witness ==
    /\ rs_held
    /\ observed = "Active"
    /\ cfgSinceResize = 1
    /\ getConfigs = 0

\* C5: get never waits: while a get is in progress its next step can always
\* be taken, whatever the callbacks and the queue are doing, and a get
\* returns within three steps.
C5_GetNeverBlocks ==
    /\ rs_pc # "idle" => ENABLED GetStep
    /\ getSteps <= 3
    /\ (rs_pc = "idle" /\ rs_ret # "none") => rs_ret \in {"Some", "None"}

C5_Witness ==
    /\ rs_pc = "idle"
    /\ rs_ret = "None"
    /\ callbacks # {}
    /\ completed < submitted

\* C6: at most one completion callback is pending at any time (a resize made
\* while the state is ResizingQueued registers no second callback).
C6_AtMostOneCallbackPending == Cardinality(callbacks) <= 1

(***************************************************************************)
(* Claims about GameState::run and the event handler, checked under        *)
(* GameSpec.                                                               *)
(***************************************************************************)

\* C7: when the loop has ended (LoopDestroyed was handled), the state has
\* been consumed and Game::finished has been called exactly once, and it is
\* the last thing called; finished is never called twice.
C7_FinishedExactlyOnce ==
    /\ finishedCount <= 1
    /\ loop_destroyed => (finishedCount = 1 /\ ~state_some /\ calls = <<"finished">>)

\* C8: the exit flag check of a redraw tick sets control flow to Exit only
\* after an Exit command has been drained from the command channel (a close
\* event whose user_exit_requested enqueues nothing does not end the loop).
C8_ExitOnlyAfterExitCommand ==
    [][(g_pc = "check" /\ control_flow # "Exit" /\ control_flow' = "Exit")
          => exitDrained]_vars

\* C9: if an Exit command is in the channel when a redraw tick begins, then
\* when the drain of that tick is over the exit flag is set, and after the
\* flag check control flow is Exit; no step ever takes control flow back
\* from Exit.
C9_ExitCommandEndsLoop ==
    /\ []((exitAtTickStart /\ g_pc = "check") => (exit_flag /\ exitDrained))
    /\ []((exitAtTickStart /\ g_pc = "render") => (exit_flag /\ control_flow = "Exit"))
    /\ [][control_flow = "Exit" => control_flow' = "Exit"]_vars

C9_Witness ==
    /\ exitAtTickStart
    /\ g_pc = "render"
    /\ exitDrained
    /\ control_flow = "Exit"

\* C10: bring-up is started at most once; receive_event and every game
\* callback other than init run only in steps that leave bring-up complete
\* and its state received; a step taken before the state is received leaves
\* control flow, the exit flag, the input mode and the sizes unchanged and
\* calls nothing but init (the event is dropped).
C10_BringUpOnceBeforeDispatch ==
    /\ [](bringups <= 1)
    /\ []((calls # <<>> /\ calls # <<"init">>)
            => (task = "done" /\ state_channel = "empty"
                  /\ (state_some \/ finishedCount = 1)))
    /\ [][(~state_some /\ ~state_some' /\ finishedCount' = 0)
            => (/\ UNCHANGED <<control_flow, exit_flag, modeVars, sizeVars, g_pc>>
                /\ calls' \in {<<>>, <<"init">>})]_vars

C10_Witness ==
    /\ build = "wasm"
    /\ resumed = 2
    /\ bringups = 1
    /\ state_some
    /\ "process_event" \in {calls[i] : i \in 1 .. Len(calls)}

\* C11: a command drain takes the commands oldest first, and when it is over
\* the channel is empty, the input mode is the argument of the last
\* SetInputMode sent (the mode before, if none was) and the mouse sensitivity
\* is the argument of the last SetMouseSensitivity sent (likewise).
C11_DrainAppliesInOrder ==
    /\ [][(g_pc = "drain" /\ Len(cmdq') < Len(cmdq)) => cmdq' = Tail(cmdq)]_vars
    /\ [][(g_pc = "drain" /\ g_pc' = "check")
            => (/\ cmdq = <<>>
                /\ cmdq' = <<>>
                /\ input_mode' = expMode
                /\ mouse_sensitivity' = expSens)]_vars

\* sensitivity 0.05, mode Exclusive and a hidden cursor when a drain is over
C11_Witness ==
    /\ g_pc = "check"
    /\ cmdq = <<>>
    /\ input_mode = "Exclusive"
    /\ expMode = "Exclusive"
    /\ mouse_sensitivity = 5 * DefaultSensitivity
    /\ ~cursor_visible

\* C12: a drain takes only commands that were in the channel when it began:
\* a command sent while the drain is in progress is left for the drain of the
\* next tick.
C12_LateCommandWaits ==
    [][(g_pc = "drain" /\ Len(cmdq') < Len(cmdq)) => toDrain > 0]_vars

\* C13: once bring-up has completed, the cursor is visible exactly when the
\* input mode is not one that hides it, in particular after every completed
\* drain; the mode and the cursor change only inside a drain.
C13_CursorFollowsMode ==
    /\ [](task = "done" => cursor_visible = ~should_hide_cursor(input_mode))
    /\ [][g_pc # "drain" => UNCHANGED modeVars]_vars

C13_Witness ==
    /\ g_pc = "check"
    /\ input_mode = "Exclusive"
    /\ ~cursor_visible
    /\ cmdq = <<>>

\* C14: the exit flag is false until bring-up has completed, and no step
\* takes it from true to false.
C14_ExitFlagMonotonic ==
    /\ [](task # "done" => ~exit_flag)
    /\ [][exit_flag => exit_flag']_vars

\* a frame rendered in a tick after the one whose close event set the flag
C14_Witness ==
    /\ exit_flag
    /\ ~exitDrained
    /\ control_flow = "Exit"
    /\ calls = <<"get_current_texture", "render_to", "present">>

(***************************************************************************)
(* Claims about the handling of one event, checked under StateSpec and     *)
(* InputSpec, which record the event given.                                *)
(***************************************************************************)

\* C15: when the state is given an event that carries the id of another
\* window (a window event or a redraw request), nothing but receive_event
\* runs: process_raw_event and process_event are not called, and no field
\* of the state changes.
C15_OtherWindowEventsDropped ==
    [][LET e == last_event'
       IN  ("own" \in DOMAIN e /\ ~e.own /\ EventWithState(e))
              => (calls' = <<"receive_event">> /\ UNCHANGED <<gFields, gInput>>)]_vars

\* C16: an event for this window goes to process_raw_event exactly when the
\* input mode propagates raw input or the event is not input-shaped; when
\* process_raw_event returns None nothing else runs and nothing changes;
\* when the event does not go to it, process_event runs on the event as it
\* was given.
C16_RawEventGate ==
    [][LET e == last_event'
       IN  ("own" \in DOMAIN e => e.own) /\ EventWithState(e)
             => LET called == {calls'[i] : i \in 1 .. Len(calls')}
                IN  /\ "process_raw_event" \in called
                          <=> (should_propogate_raw_input(input_mode) \/ ~is_input_event(e))
                    /\ ("process_raw_event" \in called /\ "process_event" \notin called)
                          => (/\ calls' = <<"receive_event", "process_raw_event">>
                              /\ dispatched' = <<>>
                              /\ UNCHANGED <<gFields, gInput>>)
                    /\ "process_raw_event" \notin called
                          => process_event(e, <<"receive_event", "process_event">>)]_vars

\* a key press handled in Exclusive mode without process_raw_event
C16_Witness ==
    /\ input_mode = "Exclusive"
    /\ last_event.kind = "KeyboardInput"
    /\ calls = <<"receive_event", "process_event", "handle_linear_input">>

\* C17: the handle_linear_input and handle_vector_input calls of an event
\* are, in order, those of its linear_input and vector_input calls whose
\* physical input the input map binds, with the bound action and the same
\* activation, if the input mode handles mapped input, and none otherwise;
\* nothing panics.
C17_MappedInputOnlyWhenHandledAndBound ==
    LET Bound(c) == IF c.fn = "linear_input"
                    THEN c.input \in DOMAIN input_map.linear_map
                    ELSE c.input \in DOMAIN input_map.vector_map
        expected == IF should_handle_input(input_mode)
                    THEN SelectSeq(dispatched, Bound)
                    ELSE <<>>
        IsHandle(name) == name \in {"handle_linear_input", "handle_vector_input"}
    IN  /\ panicked = "none"
        /\ Len(handled) = Len(expected)
        /\ \A i \in 1 .. Len(handled) :
              /\ handled[i].physical = expected[i].input
              /\ handled[i].activation = expected[i].activation
              /\ handled[i].callback = IF expected[i].fn = "linear_input"
                                       THEN "handle_linear_input"
                                       ELSE "handle_vector_input"
              /\ handled[i].input = IF expected[i].fn = "linear_input"
                                    THEN input_map.linear_map[expected[i].input]
                                    ELSE input_map.vector_map[expected[i].input]
        /\ SelectSeq(calls, IsHandle) = [i \in 1 .. Len(handled) |-> handled[i].callback]

\* a pointer movement that gave a bound linear input and the bound vector input
C17_Witness ==
    /\ last_event.kind = "CursorMoved"
    /\ Len(dispatched) = 2
    /\ Len(handled) = 2
    /\ handled[1].callback = "handle_linear_input"
    /\ handled[2].callback = "handle_vector_input"

\* C18: whatever the input mode is, its four policies are those of the
\* table: Exclusive hides and locks the cursor, handles mapped input and
\* does not propagate raw input; UI does none of the first three and
\* propagates; Unified neither hides nor locks, handles and propagates.
C18_InputModePolicies ==
    <<should_hide_cursor(input_mode), should_lock_cursor(input_mode),
      should_handle_input(input_mode), should_propogate_raw_input(input_mode)>>
      = CASE input_mode = "Exclusive" -> <<TRUE, TRUE, TRUE, FALSE>>
          [] input_mode = "UI" -> <<FALSE, FALSE, FALSE, TRUE>>
          [] input_mode = "Unified" -> <<FALSE, FALSE, TRUE, TRUE>>

\* a pointer movement in UI mode: seen by process_raw_event, not mapped,
\* the cursor left where it is
C18_Witness ==
    /\ input_mode = "UI"
    /\ cursor_visible
    /\ last_event.kind = "CursorMoved"
    /\ last_event.position # <<0, 0>>
    /\ last_cursor_position = last_event.position
    /\ calls = <<"receive_event", "process_raw_event", "process_event">>
    /\ dispatched # <<>>
    /\ handled = <<>>

\* C19: when the state is given a Resized event for its window with size
\* (0, 0), the cached size, the configuration, the surface and the work-done
\* signal are as before and the handler returns at once: no resize starts
\* and window_resize is not called.
C19_ZeroResizeIgnored ==
    [][LET e == last_event'
       IN  (e.kind = "Resized" /\ e.own /\ e.size = <<0, 0>> /\ EventWithState(e))
             => (/\ UNCHANGED sizeVars
                 /\ g_pc' = "idle"
                 /\ \A i \in 1 .. Len(calls') : calls'[i] # "window_resize")]_vars

C19_Witness ==
    /\ last_event.kind = "Resized"
    /\ last_event.own
    /\ last_event.size = <<0, 0>>
    /\ calls = <<"receive_event", "process_raw_event", "process_event">>
    /\ g_pc = "idle"
    /\ g_surface = data_size

\* C20: process_event on a Resized event for this window with a nonzero
\* size sets the cached size and the configuration to it and starts the
\* wait, the surface still as it was; the surface is configured only by the
\* step that has received the work-done signal, which configures it with the
\* cached size and calls window_resize, once and nothing else; when that
\* step ends the handling of a Resized event, size, configuration and
\* surface are the event's size.
C20_ResizeWaitsThenReconfigures ==
    /\ [][LET e == last_event'
         IN (e.kind = "Resized" /\ e.own /\ e.size[1] > 0 /\ e.size[2] > 0
               /\ EventWithState(e)
               /\ \E i \in 1 .. Len(calls') : calls'[i] = "process_event")
               => (/\ data_size' = e.size
                   /\ data_config' = e.size
                   /\ g_surface' = g_surface
                   /\ g_pc' = "resize_wait"
                   /\ \A i \in 1 .. Len(calls') : calls'[i] # "window_resize")]_vars
    /\ [][(\/ g_surface' # g_surface
            \/ (calls' # calls /\ \E i \in 1 .. Len(calls') : calls'[i] = "window_resize"))
            => (/\ g_pc = "resize_wait"
                /\ work_done = "sent"
                /\ g_surface' = data_size
                /\ g_pc' = "idle"
                /\ calls' = <<"window_resize">>)]_vars
    /\ []((last_event.kind = "Resized" /\ g_pc = "idle" /\ calls = <<"window_resize">>)
            => (/\ data_size = last_event.size
                /\ data_config = last_event.size
                /\ g_surface = last_event.size))

C20_Witness ==
    /\ last_event.kind = "Resized"
    /\ g_pc = "idle"
    /\ calls = <<"window_resize">>
    /\ g_surface = last_event.size
    /\ work_done = "none"

(***************************************************************************)
(* The redraw tick's render (TickSpec).  The step that leaves "render" is  *)
(* the render of the tick; render_result' is what it came to.              *)
(***************************************************************************)
RenderEnds == g_pc = "render" /\ g_pc' # "render"

\* C21: when render reports a lost surface, or the frame presented was
\* suboptimal, resize(data.size) starts in that tick: the cached size and the
\* configuration keep the last known size, control flow is unchanged, and
\* the handler leaves the wait only by configuring the surface with that
\* size, so before any later render; both cases do the same.
C21_LostOrSuboptimalReconfigures ==
    /\ [][(RenderEnds /\ render_result' \in {"Lost", "Suboptimal"})
            => (/\ g_pc' = "resize_wait"
                /\ work_done' = "registered"
                /\ data_size' = data_size
                /\ data_config' = data_size
                /\ g_surface' = g_surface
                /\ control_flow' = control_flow
                /\ panicked' = "none"
                /\ ~loop_destroyed')]_vars
    /\ [][g_pc = "resize_wait"
            => (/\ data_size' = data_size
                /\ data_config' = data_config
                /\ \/ g_pc' = "resize_wait" /\ g_surface' = g_surface
                   \/ /\ g_pc' = "idle"
                      /\ g_surface' = data_size
                      /\ calls' = <<"window_resize">>)]_vars
    /\ [](g_pc \in {"drain", "check", "render"} => (work_done = "none" /\ g_surface = data_size))

\* the render attempt of the tick after one whose frame was suboptimal
C21_Witness ==
    /\ render_result = "Suboptimal"
    /\ g_pc = "render"
    /\ g_surface = data_size
    /\ control_flow = "Poll"

\* C22: when render reports out of memory, control flow is Exit when the
\* tick ends, no resize is begun, the surface and its configuration are
\* untouched, and render_to is not called.
C22_OutOfMemoryExits ==
    [][(RenderEnds /\ render_result' = "OutOfMemory")
         => (/\ control_flow' = "Exit"
             /\ g_pc' = "idle"
             /\ UNCHANGED sizeVars
             /\ \A i \in 1 .. Len(calls') : calls'[i] \notin {"render_to", "present"})]_vars

C22_Witness ==
    /\ render_result = "OutOfMemory"
    /\ control_flow = "Exit"
    /\ ~exit_flag
    /\ calls = <<"get_current_texture">>

\* C23: when render reports Outdated or Timeout, the render changes none of
\* control flow, cached size, configuration, surface, input mode and exit
\* flag, render_to is not called, and the handler returns for the next event.
C23_TransientErrorContinues ==
    [][(RenderEnds /\ render_result' \in {"Outdated", "Timeout"})
         => (/\ UNCHANGED <<control_flow, data_size, data_config, g_surface, work_done>>
             /\ UNCHANGED <<input_mode, mouse_sensitivity, cursor_visible, exit_flag>>
             /\ g_pc' = "idle"
             /\ panicked' = "none"
             /\ ~loop_destroyed'
             /\ \A i \in 1 .. Len(calls') : calls'[i] \notin {"render_to", "present"})]_vars

\* the tick after a timeout has begun
C23_Witness ==
    /\ render_result = "Timeout"
    /\ g_pc = "drain"
    /\ control_flow = "Poll"
    /\ last_event.kind = "RedrawRequested"

\* C24: render_to is called only by the render of a tick, once, between
\* get_current_texture giving a texture and one present; a tick is a redraw
\* request, the drain to an empty channel, the exit check and one render, in
\* that order; a render whose texture is not acquired calls neither.
C24_OneFramePerTick ==
    /\ [][(calls' # calls /\ \E i \in 1 .. Len(calls') : calls'[i] \in {"render_to", "present"})
            => (/\ RenderEnds
                /\ render_result' \in {"Ok", "Suboptimal"}
                /\ calls' = <<"get_current_texture", "render_to", "present">>)]_vars
    /\ [][(RenderEnds /\ render_result' \notin {"Ok", "Suboptimal"})
            => calls' = <<"get_current_texture">>]_vars
    /\ [][RenderEnds => g_pc' \in {"idle", "resize_wait"}]_vars
    /\ [][(g_pc' = "render" /\ g_pc # "render") => g_pc = "check"]_vars
    /\ [][(g_pc' = "check" /\ g_pc # "check") => (g_pc = "drain" /\ cmdq = <<>>)]_vars
    /\ [][(g_pc' = "drain" /\ g_pc # "drain")
            => (g_pc = "idle" /\ last_event'.kind = "RedrawRequested" /\ last_event'.own)]_vars

\* a frame rendered after the drain applied the command Game::init sent
C24_Witness ==
    /\ render_result = "Ok"
    /\ calls = <<"get_current_texture", "render_to", "present">>
    /\ g_pc = "idle"
    /\ input_mode = "Exclusive"
    /\ cmdq = <<>>

(***************************************************************************)
(* The pointer (PointerSpec).  In a step that handles the CursorMoved      *)
(* event last_event', the delta is taken from the position the state held  *)
(* before the step.                                                        *)
(***************************************************************************)
PointerHandled ==
    /\ last_event'.kind = "CursorMoved"
    /\ \E i \in 1 .. Len(calls') : calls'[i] = "process_event"

\* C25: a pointer delta that is classified gives exactly one linear input:
\* MoveRight or MoveLeft (by the sign of dx) if and only if |dx| > |dy|,
\* else MoveUp or MoveDown (by the sign of dy), a tie going to the vertical
\* axis; dx = 5, dy = 1 gives MoveRight.
C25_PointerClassification ==
    [][LET dx == last_event'.position[1] - last_cursor_position[1]
           dy == last_event'.position[2] - last_cursor_position[2]
           IsLinear(c) == c.fn = "linear_input"
           lin == SelectSeq(dispatched', IsLinear)
       IN  PointerHandled
             => /\ Len(lin) <= 1
                /\ lin # <<>>
                     => /\ lin[1].input[1] = "Mouse"
                        /\ lin[1].input[2] \in {"MoveLeft", "MoveRight"} <=> Abs(dx) > Abs(dy)
                        /\ lin[1].input[2] \in {"MoveUp", "MoveDown"} <=> Abs(dx) <= Abs(dy)
                        /\ lin[1].input[2] = "MoveRight" <=> (Abs(dx) > Abs(dy) /\ dx > 0)
                        /\ lin[1].input[2] = "MoveUp" <=> (Abs(dx) <= Abs(dy) /\ dy > 0)]_vars

\* the delta (5, 1) at sensitivity 0.1: MoveRight at 0.5, the vector (0.5, 0.1)
C25_Witness ==
    /\ last_event.kind = "CursorMoved"
    /\ last_event.position = <<5, 1>>
    /\ mouse_sensitivity = 10
    /\ dispatched = <<LinearCall(Mouse("MoveRight"), 50), VectorCall("MouseMove", <<50, 10>>)>>
    /\ Len(handled) = 2
    /\ handled[1].input = "TurnRight"

\* C26: a handled CursorMoved dispatches a linear input if and only if
\* |dx| > 2 or |dy| > 2 against the last known position, and dispatches the
\* vector input MouseMove, once, in either case.
C26_JitterThreshold ==
    [][LET dx == last_event'.position[1] - last_cursor_position[1]
           dy == last_event'.position[2] - last_cursor_position[2]
           IsLinear(c) == c.fn = "linear_input"
           IsVector(c) == c.fn = "vector_input"
       IN  PointerHandled
             => /\ SelectSeq(dispatched', IsLinear) # <<>> <=> (Abs(dx) > 2 \/ Abs(dy) > 2)
                /\ Len(SelectSeq(dispatched', IsVector)) = 1
                /\ SelectSeq(dispatched', IsVector)[1].input = "MouseMove"]_vars

\* a movement of (2, 1): no linear input, the vector input alone
C26_Witness ==
    /\ last_event.kind = "CursorMoved"
    /\ last_event.position = <<2, 1>>
    /\ input_mode = "Unified"
    /\ mouse_sensitivity = 10
    /\ dispatched = <<VectorCall("MouseMove", <<20, 10>>)>>
    /\ Len(handled) = 1
    /\ handled[1].callback = "handle_vector_input"

\* C27: every activation given to the game is in range, for every pointer
\* delta and every sensitivity a command set: a pointer's linear activation
\* is clamp(|delta| * sensitivity, 0, 1), each component of its vector
\* activation is clamp(delta * sensitivity, -1, 1); a key's is 1 or 0.
C27_ActivationsInRange ==
    [][LET dx == last_event'.position[1] - last_cursor_position[1]
           dy == last_event'.position[2] - last_cursor_position[2]
           d == IF Abs(dx) > Abs(dy) THEN Abs(dx) ELSE Abs(dy)
           Clamp(v, lo, hi) == IF v < lo THEN lo ELSE IF v > hi THEN hi ELSE v
       IN  /\ PointerHandled
                => \A i \in 1 .. Len(handled') :
                      IF handled'[i].callback = "handle_linear_input"
                      THEN /\ handled'[i].activation = Clamp(d * mouse_sensitivity, 0, Full)
                           /\ handled'[i].activation \in 0 .. Full
                      ELSE /\ handled'[i].activation
                                = <<Clamp(dx * mouse_sensitivity, 0 - Full, Full),
                                    Clamp(dy * mouse_sensitivity, 0 - Full, Full)>>
                           /\ handled'[i].activation[1] \in (0 - Full) .. Full
                           /\ handled'[i].activation[2] \in (0 - Full) .. Full
           /\ last_event'.kind = "KeyboardInput"
                => \A i \in 1 .. Len(handled') :
                      handled'[i].activation = IF last_event'.pressed THEN Full ELSE 0]_vars

\* C28: a handled ModifiersChanged synthesizes one linear input for each of
\* shift, ctrl, alt, logo that differs from the snapshot, with activation 1
\* if the modifier is now set and 0 if it is now clear, in that order, and
\* none for the others; the snapshot then is the event's state, and the
\* same event again synthesizes nothing.
C28_ModifierChanges ==
    [][LET e == last_event'
           One(field, key) ==
               IF current_modifiers[field] # e.modifiers[field]
               THEN <<LinearCall(KnownKeyboard(key),
                                 IF e.modifiers[field] THEN Full ELSE 0)>>
               ELSE <<>>
       IN  (/\ e.kind = "ModifiersChanged"
            /\ \E i \in 1 .. Len(calls') : calls'[i] = "process_event")
             => /\ dispatched' = One("shift", "Shift") \o One("ctrl", "Ctrl")
                                   \o One("alt", "Alt") \o One("logo", "Logo")
                /\ current_modifiers' = e.modifiers
                /\ e.modifiers = current_modifiers => dispatched' = <<>>]_vars

\* shift released and alt pressed by one event
C28_Witness ==
    /\ last_event.kind = "ModifiersChanged"
    /\ last_event.modifiers = [shift |-> FALSE, ctrl |-> FALSE, alt |-> TRUE, logo |-> FALSE]
    /\ current_modifiers = last_event.modifiers
    /\ dispatched = <<LinearCall(KnownKeyboard("Shift"), 0),
                      LinearCall(KnownKeyboard("Alt"), Full)>>
    /\ input_mode = "Exclusive"
    /\ handled = <<[callback |-> "handle_linear_input", physical |-> KnownKeyboard("Shift"),
                    input |-> "Sprint", activation |-> 0]>>

\* C29: after a handled CursorMoved the last known position is the window's
\* centre (width / 2, height / 2) while the mode locks the cursor, and the
\* position the event reported while it does not; the CursorMoved the warp
\* produces, at the centre, dispatches no linear input and warps no more.
C29_LockRecentres ==
    /\ []((/\ last_event.kind = "CursorMoved"
           /\ \E i \in 1 .. Len(calls) : calls[i] = "process_event")
            => last_cursor_position = IF should_lock_cursor(input_mode)
                                      THEN <<data_size[1] \div 2, data_size[2] \div 2>>
                                      ELSE last_event.position)
    /\ [][(/\ PointerHandled
           /\ should_lock_cursor(input_mode)
           /\ last_cursor_position = <<data_size[1] \div 2, data_size[2] \div 2>>
           /\ last_event'.position = last_cursor_position)
            => (/\ \A i \in 1 .. Len(dispatched') : dispatched'[i].fn # "linear_input"
                /\ \A i \in 1 .. Len(calls') : calls'[i] # "set_cursor_position"
                /\ last_cursor_position' = last_cursor_position)]_vars

\* the event of the warp has been handled: a zero delta at the centre
C29_Witness ==
    /\ input_mode = "Exclusive"
    /\ data_size = <<2, 1>>
    /\ last_event.kind = "CursorMoved"
    /\ last_event.position = <<1, 0>>
    /\ last_cursor_position = <<1, 0>>
    /\ mouse_sensitivity = 10
    /\ dispatched = <<VectorCall("MouseMove", <<0, 0>>)>>
    /\ calls = <<"receive_event", "process_event", "handle_vector_input">>

(***************************************************************************)
(* request_powerful_adapter (AdapterSpec).                                 *)
(***************************************************************************)
\* C30: request_powerful_adapter returns None if and only if no enumerated
\* adapter passes the query; otherwise it returns an allowed adapter whose
\* device type ranks highest among the allowed ones (Discrete 4 >
\* Integrated 3 > Virtual 2 > Other 1 > Cpu 0) and whose limits, read as
\* (max_buffer_size, max_compute_workgroup_storage_size,
\* max_push_constant_size, max_texture_dimension_2d,
\* max_texture_dimension_1d, max_texture_dimension_3d), are lexicographically
\* greatest among the allowed adapters of that type.
C30_MostPowerfulAllowedAdapter ==
    LET Passes(a) ==
            /\ query.force_adapter_type = <<>> \/ query.force_adapter_type = <<a.device_type>>
            /\ ~query.compatible_surface \/ a.surface_supported
            /\ ~\E i \in 1 .. Len(query.physical_blacklist) :
                   query.physical_blacklist[i] = a.device
        allowed == {instance_adapters[i] : i \in 1 .. Len(instance_adapters)} \cap
                     {a \in Adapters : Passes(a)}
        Rank(dt) == CASE dt = "DiscreteGpu" -> 4 [] dt = "IntegratedGpu" -> 3
                      [] dt = "VirtualGpu" -> 2 [] dt = "Other" -> 1 [] dt = "Cpu" -> 0
        Tuple(l) == <<l.max_buffer_size, l.max_compute_workgroup_storage_size,
                      l.max_push_constant_size, l.max_texture_dimension_2d,
                      l.max_texture_dimension_1d, l.max_texture_dimension_3d>>
        LexLess(s, u) == \E i \in 1 .. 6 : s[i] < u[i] /\ \A j \in 1 .. i - 1 : s[j] = u[j]
    IN  returned # "pending"
          => /\ returned = <<>> <=> allowed = {}
             /\ returned # <<>>
                  => /\ Len(returned) = 1
                     /\ returned[1] \in allowed
                     /\ \A a \in allowed : Rank(a.device_type) <= Rank(returned[1].device_type)
                     /\ \A a \in allowed :
                           a.device_type = returned[1].device_type
                             => ~LexLess(Tuple(returned[1].limits), Tuple(a.limits))

\* the discrete adapter is blacklisted and the other, a plain CPU, is returned
C30_Witness ==
    /\ returned # "pending"
    /\ returned # <<>>
    /\ Len(instance_adapters) = 2
    /\ query.physical_blacklist = <<1>>
    /\ instance_adapters[1].device_type = "DiscreteGpu"
    /\ instance_adapters[1].device = 1
    /\ instance_adapters[1].limits = Limits(<<1, 0, 0, 0, 0, 0>>)
    /\ returned[1] = instance_adapters[2]
    /\ returned[1].device_type = "Cpu"

(***************************************************************************)
(* C31: limits_intersection(A, B) holds min(A.f, B.f) in every max_ field  *)
(* and max(A.f, B.f) in the two min_..._offset_alignment fields, so it is  *)
(* no more permissive than A or than B in any field; limits_union is the   *)
(* opposite; and either function of A and A gives A.                       *)
(***************************************************************************)
C31_LimitsFieldwise ==
    LET A == limits_lhs
        B == limits_rhs
        R == limits_out.value
        Smaller(x, y) == IF x <= y THEN x ELSE y
        Larger(x, y) == IF x >= y THEN x ELSE y
    IN  /\ limits_out.op = "limits_intersection" =>
              /\ \A f \in MaxFields :
                    R[f] = Smaller(A[f], B[f]) /\ R[f] <= A[f] /\ R[f] <= B[f]
              /\ \A f \in MinFields :
                    R[f] = Larger(A[f], B[f]) /\ R[f] >= A[f] /\ R[f] >= B[f]
        /\ limits_out.op = "limits_union" =>
              /\ \A f \in MaxFields :
                    R[f] = Larger(A[f], B[f]) /\ R[f] >= A[f] /\ R[f] >= B[f]
              /\ \A f \in MinFields :
                    R[f] = Smaller(A[f], B[f]) /\ R[f] <= A[f] /\ R[f] <= B[f]
        /\ limits_out.op # "none" /\ A = B => R = A

\* an intersection of limits that differ in an alignment and in a maximum
C31_Witness ==
    /\ limits_out.op = "limits_intersection"
    /\ \E f \in MinFields : limits_lhs[f] > limits_rhs[f]
    /\ \E f \in MaxFields : limits_lhs[f] > limits_rhs[f]

(***************************************************************************)
(* C32: once the state is built, every physical input is bound in the      *)
(* input map as the persisted bindings bind it where they bind it, and as  *)
(* Game::default_inputs binds it otherwise; with nothing persisted, or     *)
(* with a string from_str rejects, the map is that of the defaults.        *)
(***************************************************************************)
C32_PersistedOverlay ==
    LET defaults == LinearBindings
        read == IF local_storage = <<>> THEN <<"Err", "none">> ELSE from_str(local_storage[1])
        persisted == IF read[1] = "Ok" THEN read[2] ELSE empty
    IN  state_some =>
          /\ \A input \in LinearInputType :
                get_linear(input_map, input) =
                   IF get_linear(persisted, input) # <<>>
                   THEN get_linear(persisted, input)
                   ELSE get_linear(defaults, input)
          /\ \A input \in VectorInputType :
                get_vector(input_map, input) =
                   IF get_vector(persisted, input) # <<>>
                   THEN get_vector(persisted, input)
                   ELSE get_vector(defaults, input)

(***************************************************************************)
(* C33: a step in which a completion closure runs changes the state only   *)
(* from ResizingQueued to Inactive, leaves an Active or Inactive state as  *)
(* it is, and never touches the surface, the configuration or new_size.    *)
(***************************************************************************)
C33_CallbackOnlyQueuedToInactive ==
    [][(\E cb \in callbacks : callbacks' = callbacks \ {cb}) =>
          /\ rs_state' # rs_state =>
                decode(rs_state) = "ResizingQueued" /\ decode(rs_state') = "Inactive"
          /\ decode(rs_state) \in {"Active", "Inactive"} => rs_state' = rs_state
          /\ UNCHANGED <<rs_surface, rs_config, rs_new_size>>]_vars

\* the closure of the only resize has run and made the state Inactive
C33_Witness ==
    /\ resizes = 1
    /\ callbacks = {}
    /\ decode(rs_state) = "Inactive"

(***************************************************************************)
(* C34: resize and get being called by the event-loop thread only, a get   *)
(* that has decoded Inactive finds the state still Inactive at its         *)
(* compare_exchange, closures running in between or not, and returns the   *)
(* surface.                                                                *)
(***************************************************************************)
C34_CasNeverFails ==
    /\ rs_pc \in {"configure", "cas"} => decode(rs_state) = "Inactive"
    /\ rs_pc = "idle" /\ observed = "Inactive" => rs_ret = "Some"

\* a get decoded Inactive and returned the surface while the queue still
\* held a closure of an earlier resize
C34_Witness ==
    /\ rs_pc = "idle"
    /\ observed = "Inactive"
    /\ rs_ret = "Some"
    /\ callbacks # {}
    /\ decode(rs_state) = "Active"

(***************************************************************************)
(* C35: the state decodes to Active, ResizingQueued or Inactive, and it    *)
(* changes only to ResizingQueued in a resize, from ResizingQueued to      *)
(* Inactive as a closure runs, and from Inactive to Active at the          *)
(* compare_exchange of get.                                                *)
(***************************************************************************)
C35_StateTransitions ==
    [][/\ decode(rs_state) \in ResizableSurfaceState
       /\ decode(rs_state') \in ResizableSurfaceState
       /\ rs_state' # rs_state =>
            \/ /\ decode(rs_state') = "ResizingQueued"
               /\ resizes' = resizes + 1
            \/ /\ decode(rs_state) = "ResizingQueued"
               /\ decode(rs_state') = "Inactive"
               /\ \E cb \in callbacks : callbacks' = callbacks \ {cb}
            \/ /\ decode(rs_state) = "Inactive"
               /\ decode(rs_state') = "Active"
               /\ rs_pc = "cas"
               /\ rs_pc' = "idle"]_vars

\* the three changes have been made in turn, and a resize then found the
\* state Active
C35_Witness ==
    /\ resizes = 2
    /\ Cardinality(callbacks) = 1
    /\ cfgSinceResize = 0
    /\ getConfigs = 1
    /\ decode(rs_state) = "ResizingQueued"

(***************************************************************************)
(* C36: where the closures the queue holds are run and get is called tick  *)
(* after tick, the resize calls being finitely many (at most MaxResizes),  *)
(* again and again a get has returned the surface configured with the size *)
(* of the most recent resize, with the state Active.                       *)
(***************************************************************************)
C36_ResizeEventuallyApplied ==
    []<>(/\ rs_pc = "idle"
         /\ rs_ret = "Some"
         /\ rs_held
         /\ rs_surface = requested
         /\ decode(rs_state) = "Active")

\* the last resize the bound allows has been applied by a get
C36_Witness ==
    /\ resizes = MaxResizes
    /\ rs_pc = "idle"
    /\ rs_ret = "Some"
    /\ rs_surface = requested
    /\ cfgSinceResize = 1
    /\ decode(rs_state) = "Active"

(***************************************************************************)
(* C37: in a redraw tick the exit flag is read in one step, which follows  *)
(* the drain and leads to the render: it sets control flow to Exit when    *)
(* the flag is set and leaves it otherwise, and no other step of the tick  *)
(* but an out-of-memory render changes control flow.  With control flow    *)
(* Exit the render is still made, and a lost or suboptimal surface is      *)
(* still recovered by resize, which ends in window_resize.                 *)
(***************************************************************************)
C37_ExitCheckedOncePerTick ==
    /\ [][g_pc = "check" =>
            (/\ g_pc' = "render"
             /\ control_flow' = (IF exit_flag THEN "Exit" ELSE control_flow)
             /\ exit_flag' = exit_flag)]_vars
    /\ [][(g_pc' = "check" /\ g_pc # "check") => g_pc = "drain"]_vars
    /\ [][(g_pc # "check" /\ control_flow' # control_flow) =>
            (RenderEnds /\ render_result' = "OutOfMemory")]_vars
    /\ [][(g_pc = "render" /\ control_flow = "Exit") =>
            (/\ RenderEnds
             /\ calls'[1] = "get_current_texture"
             /\ render_result' \in {"Lost", "Suboptimal"} =>
                   g_pc' = "resize_wait" /\ work_done' = "registered")]_vars
    /\ [][(g_pc = "resize_wait" /\ control_flow = "Exit" /\ g_pc' # "resize_wait") =>
            (g_pc' = "idle" /\ calls' = <<"window_resize">> /\ control_flow' = "Exit")]_vars

\* the flag was set with no Exit command drained, the check set control flow
\* to Exit, the render that followed lost the surface and resize has called
\* window_resize
C37_Witness ==
    /\ exit_flag
    /\ ~exitDrained
    /\ control_flow = "Exit"
    /\ render_result = "Lost"
    /\ calls = <<"window_resize">>
    /\ g_pc = "idle"

(***************************************************************************)
(* C38: LoopDestroyed finds the game state: the closure's                  *)
(* expect("loop is destroyed once") never panics, whichever way bring-up   *)
(* is run and however early LoopDestroyed comes.                           *)
(***************************************************************************)
C38_StateExistsAtLoopDestroyed ==
    /\ panicked # "loop is destroyed once"
    /\ loop_destroyed => finishedCount = 1

(***************************************************************************)
(* C39: the drain of a redraw tick ends and the tick goes on to its        *)
(* render, whatever producers send while it runs.                          *)
(***************************************************************************)
C39_DrainTerminates == (g_pc = "drain") ~> (g_pc = "render")

(***************************************************************************)
(* C40: GameState::resize with a nonzero size returns: the thread that     *)
(* waits for the work-done signal gets it, and goes on to configure the    *)
(* surface and to call window_resize.                                      *)
(***************************************************************************)
C40_ResizeReturns == (g_pc = "resize_wait") ~> (g_pc = "idle")

====
